---- MODULE Spec2Model ----
(***************************************************************************)
(* Verification model of the BuzzHeavier synchronisation engine.           *)
(*                                                                         *)
(*  - SpecManager : SyncManager.start_sync / stop_sync with its upload     *)
(*    pool, FileUploader.upload_with_retry and SyncStatsManager            *)
(*    (src/api/host/services/...).                                         *)
(*  - SpecLegacy  : processar_sincronizacao_simples with its pool of       *)
(*    processar_arquivo_individual tasks, garantir_caminho_remoto and      *)
(*    sincronizar_arquivo (src/api/sync_buzzheavier.py).                   *)
(*  - SpecResume  : the resume stores, SyncState (sync_buzzheavier.py) and *)
(*    SyncStateManager (host), under arbitrary sequences of operations.    *)
(*  - SpecRun     : one start_sync call with a token that may be revoked.  *)
(*  - SpecRetry   : SyncManager.retry_failed_files (host) and              *)
(*    processar_arquivos_falhados (sync_buzzheavier.py).                   *)
(*  - SpecCache   : the legacy run with its series logs and the pre-filter *)
(*    filtrar_arquivos_por_cache.                                          *)
(*  - SpecHierarchy : the path resolvers analyze_file_path,                *)
(*    validar_e_mapear_estrutura and get_caminho_remoto.                   *)
(*  - SpecLogIO   : the legacy run when an access to LOGS_DIR can fail.    *)
(*  - SpecRoutes  : a start_sync request and a POST /sync/retry-failed     *)
(*    request served by one SyncManager (routes/sync.py).                  *)
(*  - SpecStore   : two threads inside SyncStateManager.add_failed_file.   *)
(*  - SpecUploader: FileUploader.upload_with_retry on each file.           *)
(*  - SpecHistory : a sequence of save_sync_statistics calls.              *)
(*  - SpecReset   : reset_state among the calls of SyncStateManager.        *)
(***************************************************************************)
EXTENDS Integers, Sequences, FiniteSets, TLC

\* ------------------------------------------------------------- bounds
NumCallers == 2
NumFiles == 2
MaxWorkers == 2
NumEstruturas == 2
max_workers == 2
MaxAvailable == 2
MaxLog == 2
MaxDepth == 5
MaxSaves == 11
NumStats == 2

\* ------------------------------------------------------------- program constants
retry_attempts == 3
max_retries == 3
history_limit == 10

Callers == 1..NumCallers
Files == 1..NumFiles
NoOwner == 0
NoFile == 0
Estruturas == 1..NumEstruturas

\* scan, serie and capitulo of the record of file f (EstruturaHierarquica): the
\* odd files lie in a chapter, the even ones directly below their series
EstruturaHierarquica(f) ==
    [scan |-> "scan", serie |-> "serie",
     capitulo |-> IF f % 2 = 1 THEN "capitulo" ELSE ""]

\* positions in the list `futures` of _execute_uploads: every record adds at most
\* one key to each of the three groupings
Futures == 1..(3 * NumFiles)

\* content digests; "None" is Python's None, "absent" a key missing from a dict
FileHash == {"h1", "h2"}

\* niveis of garantir_caminho_remoto: cache key and directory name of each level
niveis == << [caminho_cache |-> "Gikamura", nome_diretorio |-> "scan"],
            [caminho_cache |-> "Gikamura/scan", nome_diretorio |-> "serie"],
            [caminho_cache |-> "Gikamura/scan/serie", nome_diretorio |-> "capitulo"] >>

\* estrutura.get_caminho_remoto() of the records of the worklist (one subtree)
caminho_remoto == "agregador/scan/serie/capitulo"

CacheKeys == {"raiz", "Gikamura", "Gikamura/scan", "Gikamura/scan/serie", caminho_remoto}
DirNames == {"scan", "serie", "capitulo"}

\* chave_serie of the records: the series of caminho_remoto and another one
SeriesKeys == {"agregador/scan/serie", "agregador/scan/outra"}

\* a series without a log file in LOGS_DIR
NoLog == [exists |-> FALSE, sucessos |-> 0, total_arquivos |-> 0, consolidado |-> FALSE]

\* the value a resolver returns instead of a record: None
NoEstrutura == [ok |-> FALSE, agregador |-> "", scan |-> "", serie |-> "",
                capitulo |-> "", arquivo |-> ""]

\* FileStatus (models/file_models.py)
FileStatus == {"pending", "uploading", "uploaded", "failed", "skipped"}

VARIABLES
    \* ---- SyncManager
    pc,                 \* position of each start_sync caller
    result,             \* what start_sync returned to each caller
    is_running,         \* SyncManager._is_running
    should_stop,        \* SyncManager._should_stop
    current_operation,  \* SyncManager._current_operation
    estruturas,         \* worklist of the active run
    submitted,          \* positions of the futures submitted to the pool
    collected,          \* futures whose result the collector has handled
    counts,             \* local uploaded/skipped/failed of _execute_uploads
    upload_result,      \* what _execute_uploads returned
    temp_files,         \* ConversionService._temp_files (abstracted to a count)
    cleanup,            \* per caller: outcome of cleanup_temp_files in finally
    conversion_service, \* TRUE iff a ConversionService exists
    validation_result,  \* what _validate_files returned to the active run
    space_check,        \* what _check_storage_space returned to the active run
    last_validation,    \* AuthManager: TRUE iff a validation is cached (last_validation)
    token_ok,           \* remote service: TRUE iff it accepts the bearer token
    operation,          \* per caller: the entry point it calls
    on_disk,            \* local paths that exist (os.path.exists)
    failed_at_call,     \* the stored failed list as the latest retry call found it
    stop_phase,         \* position of the run when stop_sync set the stop flag
    events,             \* phases entered and requests sent by the latest run
    \* ---- SyncStatsManager
    stats,              \* total_files, uploaded_files, skipped_files, failed_files
    statsLock,          \* owner of SyncStatsManager._lock
    countedAs,          \* per future: which counters the run added it to
    \* ---- persisted state (utils.config.state_manager)
    persisted,          \* failed_files, last_root_path
    \* ---- pool tasks (_upload_single_file) and FileInfo
    fut,                \* per future: "none" | "queued" | "running" | "done"
    taskResult,         \* per future: "raised" once its task has ended ("none" before)
    call,               \* per FileInfo: position of its upload_with_retry call
                        \* ("none" | "pre" | "put"), then what it returned
    status,             \* FileInfo.status
    upload_attempts,    \* FileInfo.upload_attempts
    puts,               \* number of PUT requests issued for the file
    unauthorized,       \* the first file of the run with a request answered 401 (or NoFile)
    \* ---- host SyncStateManager: successful files
    successful_files,   \* paths recorded by add_successful_file
    hostMark,           \* per path: content hash at its last add_successful_file
    \* ---- sync_buzzheavier.py globals
    config_data,        \* verify_integrity, resume_uploads
    sync_stats,         \* SyncStats counters
    uploaded_files,     \* SyncState.uploaded_files
    failed_files,       \* SyncState.failed_files
    file_hashes,        \* SyncState.file_hashes
    mark,               \* per path: the last mark applied ("none", "failed" or a hash)
    state_file,         \* SYNC_STATE_FILE document
    cache_diretorios,   \* cache key -> container id ("absent" when missing)
    remote_dirs,        \* remote store: directory name -> id of its parent container
    \* ---- processar_sincronizacao_simples and its tasks
    dpc,                \* position of the driver
    joined,             \* number of tasks whose result() the driver has taken
    lpc,                \* per record: position of its processar_arquivo_individual task
    nivel,              \* per task: index into niveis
    id_diretorio_pai,   \* per task: id_diretorio_pai of garantir_caminho_remoto
    put_requests,       \* per record: PUT requests issued by sincronizar_arquivo
    outcome,            \* per record: how its pipeline ended
    contrib,            \* per record: what was added to sync_stats on its behalf
    resume_match,       \* per record: its stored hash equalled its content hash
                        \* when sincronizar_arquivo examined it
    remote_calls,       \* requests the driver itself has sent (outside the tasks)
    \* ---- series logs and the cache pre-filter
    serie_of,           \* per record: the series (agregador/scan/serie) it belongs to
    logs_existentes,    \* per series: its log document ("absent" when there is none)
    economia,           \* number of records filtrar_arquivos_por_cache reported as skipped
    \* ---- series log files (LOGS_DIR) and the salvar_log_serie calls of the tasks
    historico,          \* per record: status of its entry in its series' log file
    log_data,           \* per task: the log_data its salvar_log_serie call loaded
    log_arg,            \* per task: the status argument of its pending call
    logged,             \* per record: status of its call that returned normally
    log_raised,         \* per record: number of its calls that raised
    log_io,             \* LOGS_DIR: "ok", or "faulty" when an access can fail
    \* ---- threads inside SyncStateManager.add_failed_file
    store_pc,           \* per thread: position in its add_failed_file call
    store_arg,          \* per thread: the file_path argument of the call
    store_local,        \* per thread: its local set failed_files
    \* ---- host SyncStateManager: run history and cleared keys
    sync_history,       \* the stored list 'sync_history' (empty when the key is missing)
    last_sync_stats,    \* the stored 'last_sync_stats' (NoStats when missing)
    none_keys,          \* keys of StateManager._state whose stored value is None
    saved,              \* the stats of the save_sync_statistics calls that returned
    \* ---- progress reporting of _execute_uploads
    progress_current,   \* ProgressBar.current of the latest _execute_uploads call
    callback_calls,     \* (current, total) arguments of the progress_callback
                        \* invocations since the latest run entered its upload phase
    \* ---- hierarchy resolution of one local path
    file_path,          \* absolute path of the file, as its sequence of components
    root_path,          \* absolute path of the root, as its sequence of components
    resolver,           \* which resolver was applied last ("none", "host", "legacy")
    estrutura,          \* the EstruturaHierarquica it returned (ok = FALSE for None)
    remote_path         \* get_caminho_remoto() of that record ("None" before the call)

runVars == <<validation_result, space_check, last_validation, token_ok, operation,
             on_disk, failed_at_call, stop_phase,
             events>>
resolverVars == <<file_path, root_path, resolver, estrutura, remote_path>>
mgrVars == <<pc, result, is_running, should_stop, current_operation, estruturas,
             submitted, collected, counts, upload_result, temp_files, cleanup,
             conversion_service, runVars>>
statVars == <<stats, statsLock, countedAs>>
fileInfoVars == <<call, status, upload_attempts, puts, unauthorized>>
taskVars == <<fut, taskResult, fileInfoVars>>
hostVars == <<mgrVars, statVars, persisted, taskVars>>
storeVars == <<uploaded_files, failed_files, file_hashes, mark>>
provVars == <<cache_diretorios, remote_dirs, nivel, id_diretorio_pai>>
poolVars == <<dpc, joined, lpc, put_requests, outcome, contrib, resume_match>>
logVars == <<historico, log_data, log_arg, logged, log_raised>>
storeCallVars == <<store_pc, store_arg, store_local>>
progressVars == <<progress_current, callback_calls>>
historyVars == <<sync_history, last_sync_stats, none_keys, saved>>
legacyCore == <<successful_files, hostMark, config_data, sync_stats, storeVars,
                state_file, provVars, poolVars, remote_calls, serie_of,
                logs_existentes, economia, resolverVars, logVars, log_io,
                storeCallVars, historyVars>>
legacyVars == <<legacyCore, progressVars>>
vars == <<hostVars, legacyVars>>

ZeroStats == [total_files |-> 0, uploaded_files |-> 0, skipped_files |-> 0, failed_files |-> 0]
ZeroCounts == [uploaded |-> 0, skipped |-> 0, failed |-> 0]
NoResult == [uploaded |-> 0, skipped |-> 0, failed |-> 0, total |-> 0,
             stopped_early |-> FALSE, returned |-> FALSE]

\* get_storage_info returned None (the request failed): no quota is known
NoQuota == -1

\* get_storage_info returned a document that has no 'available' entry
NoAvailableKey == -2

\* locals of start_sync before _validate_files / _check_storage_space have returned
NoValidation == [valid |-> FALSE, invalid_files |-> {}, hierarchy_errors |-> FALSE,
                 total_size |-> 0, returned |-> FALSE]
NoSpaceCheck == [sufficient |-> FALSE, available |-> NoQuota, required |-> 0,
                 warning |-> FALSE, returned |-> FALSE]

\* positions at which a caller is past the running-flag guard
ActivePC == {"auth", "scan", "validate", "storage", "convert", "prepare", "upload",
             "submit", "collect", "shutdown", "stop_timer", "final_lock",
             "final_current", "finally"}

\* the value of a stored key that holds no statistics (Python's None)
NoStats == 0

\* the state file holds no run history, and no key with the value None
NoHistory ==
    /\ sync_history = << >>
    /\ last_sync_stats = NoStats
    /\ none_keys = {}
    /\ saved = << >>

\* no thread is inside a call of the state manager
NoStoreCall ==
    /\ store_pc = [c \in Callers |-> "idle"]
    /\ store_arg = [c \in Callers |-> NoFile]
    /\ store_local = [c \in Callers |-> {}]

\* SyncManager.__init__ and its components, apart from the stop flag, the stored
\* lists and the environment
HostComponents ==
    /\ pc = [c \in Callers |-> "idle"]
    /\ result = [c \in Callers |-> "none"]
    /\ is_running = FALSE
    /\ current_operation = "None"
    /\ estruturas = {}
    /\ submitted = {}
    /\ collected = {}
    /\ counts = ZeroCounts
    /\ upload_result = NoResult
    /\ temp_files = 0
    /\ cleanup = [c \in Callers |-> "none"]
    /\ conversion_service \in BOOLEAN
    /\ validation_result = NoValidation
    /\ space_check = NoSpaceCheck
    /\ last_validation = FALSE
    /\ token_ok \in BOOLEAN
    /\ failed_at_call = {}
    /\ events = {}
    /\ stats = ZeroStats
    /\ statsLock = NoOwner
    /\ countedAs = [i \in Futures |-> ZeroCounts]
    /\ fut = [i \in Futures |-> "none"]
    /\ taskResult = [i \in Futures |-> "none"]
    /\ call = [f \in Files |-> "none"]
    /\ status = [f \in Files |-> "none"]
    /\ upload_attempts = [f \in Files |-> 0]
    /\ puts = [f \in Files |-> 0]
    /\ unauthorized = NoFile
    /\ successful_files = {}
    /\ hostMark = [p \in Estruturas |-> "none"]
    /\ progress_current = 0
    /\ callback_calls = {}
    /\ NoHistory

HostRest == HostComponents /\ NoStoreCall

HostInit ==
    /\ HostRest
    /\ should_stop = FALSE
    /\ stop_phase = "none"
    /\ operation = [c \in Callers |-> "start_sync"]
    /\ on_disk = Files \cup Estruturas
    /\ persisted = [failed_files |-> {}, last_root_path |-> "None"]

EmptyStore ==
    [exists |-> FALSE, uploaded_files |-> {}, failed_files |-> {},
     file_hashes |-> [p \in Estruturas |-> "absent"], mark |-> [p \in Estruturas |-> "none"]]

\* no path is being resolved
ResolverIdle ==
    /\ file_path = <<>>
    /\ root_path = <<>>
    /\ resolver = "none"
    /\ estrutura = NoEstrutura
    /\ remote_path = "None"

\* a series log file without an entry of the records of the run
NoEntries == [e \in Estruturas |-> "none"]

\* module import: cache_diretorios = {}, sync_stats = SyncStats(), sync_state = SyncState()
LegacyPool ==
    /\ sync_stats = ZeroStats
    /\ cache_diretorios = [k \in CacheKeys |-> "absent"]
    /\ remote_dirs = [d \in DirNames |-> "none"]
    /\ dpc = "init"
    /\ joined = 0
    /\ lpc = [e \in Estruturas |-> "none"]
    /\ nivel = [e \in Estruturas |-> 0]
    /\ id_diretorio_pai = [e \in Estruturas |-> "None"]
    /\ put_requests = [e \in Estruturas |-> 0]
    /\ outcome = [e \in Estruturas |-> "none"]
    /\ contrib = [e \in Estruturas |-> ZeroCounts]
    /\ resume_match = [e \in Estruturas |-> FALSE]
    /\ remote_calls = {}
    /\ economia = 0
    /\ historico = NoEntries
    /\ log_data = [e \in Estruturas |-> NoEntries]
    /\ log_arg = [e \in Estruturas |-> "none"]
    /\ logged = NoEntries
    /\ log_raised = [e \in Estruturas |-> 0]

\* no path is being resolved, and LOGS_DIR can be read and written
LegacyRest ==
    /\ ResolverIdle
    /\ LegacyPool
    /\ log_io = "ok"

\* every record in the one series of caminho_remoto
OneSeries == [e \in Estruturas |-> "agregador/scan/serie"]

LegacyInit ==
    /\ LegacyRest
    /\ serie_of = OneSeries
    /\ logs_existentes = [k \in SeriesKeys |-> NoLog]
    /\ uploaded_files = {}
    /\ failed_files = {}
    /\ file_hashes = [p \in Estruturas |-> "absent"]
    /\ mark = [p \in Estruturas |-> "none"]

InitManager ==
    /\ HostInit
    /\ LegacyInit
    /\ config_data = [verify_integrity |-> TRUE, resume_uploads |-> TRUE]
    /\ state_file = EmptyStore

\* ------------------------------------------------------------- start_sync

\* a guard that never sees the running flag
AlreadyRunning_NoCheck == FALSE

\* the guard of line 74
AlreadyRunning == is_running

\* leave the try block with a result; the finally clause runs next
Leave(c, r) ==
    /\ result' = [result EXCEPT ![c] = r]
    /\ pc' = [pc EXCEPT ![c] = "finally"]

\* the run of caller c enters a phase or sends a request
Enter(c, evs) == events' = events \cup evs

\* with self._lock: if self._is_running: return error; else set the flags
StartSyncGuard(c) ==
    /\ pc[c] = "idle"
    /\ operation[c] = "start_sync"
    /\ IF AlreadyRunning
         THEN /\ result' = [result EXCEPT ![c] = "already_running"]
              /\ pc' = [pc EXCEPT ![c] = "returned"]
              /\ UNCHANGED <<is_running, should_stop, stop_phase, validation_result,
                             space_check, events>>
         ELSE /\ is_running' = TRUE
              /\ events' = {}
              /\ should_stop' = FALSE
              /\ stop_phase' = "none"
              /\ validation_result' = NoValidation
              /\ space_check' = NoSpaceCheck
              /\ pc' = [pc EXCEPT ![c] = "auth"]
              /\ UNCHANGED result
    /\ UNCHANGED <<current_operation, estruturas, submitted, collected, counts,
                   upload_result, temp_files, cleanup, conversion_service, legacyVars>>
    /\ UNCHANGED <<statVars, persisted, taskVars>>
    /\ UNCHANGED <<last_validation, token_ok, operation, on_disk, failed_at_call>>

\* validate_token answered True: stats_manager.reset() and start_timer()
TokenAccepted(c) ==
    /\ statsLock = NoOwner
    /\ stats' = ZeroStats
    /\ countedAs' = [i \in Futures |-> ZeroCounts]
    /\ pc' = [pc EXCEPT ![c] = "scan"]
    /\ UNCHANGED result

\* validate_token: a validation less than five minutes old is answered from the
\* cache; otherwise GET /me, whose 200 is cached and whose 401 clears the session
ValidateToken(c) ==
    /\ pc[c] = "auth"
    /\ \/ /\ last_validation
          /\ TokenAccepted(c)
          /\ UNCHANGED <<last_validation, events>>
       \/ /\ Enter(c, {"GET /me"})
          /\ \/ /\ token_ok                         \* 200
                /\ TokenAccepted(c)
                /\ last_validation' = TRUE
             \/ /\ ~token_ok                        \* 401: _clear_session
                /\ Leave(c, "invalid_token")
                /\ last_validation' = FALSE
                /\ UNCHANGED <<stats, countedAs>>
             \/ /\ Leave(c, "invalid_token")       \* another status, network error
                /\ UNCHANGED <<last_validation, stats, countedAs>>
             \/ /\ Leave(c, "unexpected_error")    \* an exception that is not caught
                /\ UNCHANGED <<last_validation, stats, countedAs>>
    /\ UNCHANGED <<is_running, should_stop, current_operation, estruturas, submitted,
                   collected, counts, upload_result, temp_files, cleanup, conversion_service, legacyVars>>
    /\ UNCHANGED <<statsLock, persisted, taskVars>>
    /\ UNCHANGED <<validation_result, space_check, token_ok, operation, on_disk, failed_at_call, stop_phase>>

\* phase 1: _scan_files (sets last_root_path on success, re-raises on error)
ScanFiles(c) ==
    /\ pc[c] = "scan"
    /\ current_operation' = "Escaneando arquivos"
    /\ Enter(c, {"scan"})
    /\ \/ \E found \in SUBSET Files :
            /\ estruturas' = found
            /\ persisted' = [persisted EXCEPT !.last_root_path = "root"]
            /\ IF found = {}
                 THEN Leave(c, "no_valid_files")
                 ELSE pc' = [pc EXCEPT ![c] = "validate"] /\ UNCHANGED result
       \/ /\ Leave(c, "unexpected_error")
          /\ UNCHANGED <<estruturas, persisted>>
    /\ UNCHANGED <<is_running, should_stop, submitted, collected, counts,
                   upload_result, temp_files, cleanup, conversion_service, legacyVars>>
    /\ UNCHANGED <<statVars, taskVars>>
    /\ UNCHANGED <<validation_result, space_check, last_validation, token_ok, operation, on_disk, failed_at_call, stop_phase>>

\* FileInfo.size of every file of the model
FileSize == 1

\* a validity test that tolerates invalid files
is_valid_Tolerant(invalid_files, validation_errors) == TRUE

\* ValidationResult.is_valid
is_valid(invalid_files, validation_errors) == invalid_files = {} /\ ~validation_errors

\* _validate_files: validate_file_list puts the files that fail validate_single_file
\* (or are duplicates) into invalid_files, each with a validation error, and sums
\* the sizes of the others; validate_hierarchy_structure reports its own errors
validate_files(invalid, hierarchy_errors) ==
    [valid |-> is_valid(invalid, invalid # {}) /\ ~hierarchy_errors,
     invalid_files |-> invalid,
     hierarchy_errors |-> hierarchy_errors,
     total_size |-> FileSize * Cardinality(estruturas \ invalid),
     returned |-> TRUE]

\* phase 2: _validate_files
ValidateFiles(c) ==
    /\ pc[c] = "validate"
    /\ current_operation' = "Validando arquivos"
    /\ Enter(c, {"validate"})
    /\ \/ \E invalid \in SUBSET estruturas, hierarchy_errors \in BOOLEAN :
            /\ validation_result' = validate_files(invalid, hierarchy_errors)
            /\ IF validation_result'.valid
                 THEN pc' = [pc EXCEPT ![c] = "storage"] /\ UNCHANGED result
                 ELSE Leave(c, "validation_failed")
       \/ /\ Leave(c, "unexpected_error")
          /\ UNCHANGED validation_result
    /\ UNCHANGED <<is_running, should_stop, estruturas, submitted, collected, counts,
                   upload_result, temp_files, cleanup, conversion_service, legacyVars>>
    /\ UNCHANGED <<statVars, persisted, taskVars>>
    /\ UNCHANGED <<space_check, last_validation, token_ok, operation, on_disk, failed_at_call, stop_phase>>

\* _check_storage_space(required_size) for the answer of get_storage_info: NoQuota
\* when the request failed, else the available quota
check_storage_space_Strict(storage_info, required_size) ==
    IF storage_info = NoQuota
      THEN [sufficient |-> TRUE, available |-> NoQuota, required |-> required_size,
            warning |-> TRUE, returned |-> TRUE]
      ELSE LET available == IF storage_info = NoAvailableKey THEN 0 ELSE storage_info IN
           [sufficient |-> available > required_size, available |-> available,
            required |-> required_size, warning |-> FALSE, returned |-> TRUE]

\* _check_storage_space: no answer gives sufficient with a warning; otherwise
\* available = storage_info.get('available', 0) is compared with the required size
check_storage_space(storage_info, required_size) ==
    IF storage_info = NoQuota
      THEN [sufficient |-> TRUE, available |-> NoQuota, required |-> required_size,
            warning |-> TRUE, returned |-> TRUE]
      ELSE LET available == IF storage_info = NoAvailableKey THEN 0 ELSE storage_info IN
           [sufficient |-> available >= required_size, available |-> available,
            required |-> required_size, warning |-> FALSE, returned |-> TRUE]

\* phase 3: _check_storage_space(validation_result['total_size'])
CheckStorage(c) ==
    /\ pc[c] = "storage"
    /\ current_operation' = "Verificando espaco de armazenamento"
    /\ Enter(c, {"storage", "GET /storage"})
    /\ \/ \E storage_info \in {NoQuota, NoAvailableKey} \cup (0..MaxAvailable) :
            /\ space_check' = check_storage_space(storage_info, validation_result.total_size)
            /\ IF space_check'.sufficient
                 THEN pc' = [pc EXCEPT ![c] = IF conversion_service THEN "convert" ELSE "prepare"]
                      /\ UNCHANGED result
                 ELSE Leave(c, "insufficient_space")
       \/ /\ Leave(c, "unexpected_error")
          /\ UNCHANGED space_check
    /\ UNCHANGED <<is_running, should_stop, estruturas, submitted, collected, counts,
                   upload_result, temp_files, cleanup, conversion_service, legacyVars>>
    /\ UNCHANGED <<statVars, persisted, taskVars>>
    /\ UNCHANGED <<validation_result, last_validation, token_ok, operation, on_disk, failed_at_call, stop_phase>>

\* phase 4: conversion_service.prepare_for_upload (creates temporary files)
Convert(c) ==
    /\ pc[c] = "convert"
    /\ current_operation' = "Convertendo arquivos"
    /\ Enter(c, {"convert"})
    /\ temp_files' = Cardinality(estruturas)
    /\ \/ pc' = [pc EXCEPT ![c] = "prepare"] /\ UNCHANGED result
       \/ Leave(c, "unexpected_error")
    /\ UNCHANGED <<is_running, should_stop, estruturas, submitted, collected, counts,
                   upload_result, cleanup, conversion_service, legacyVars>>
    /\ UNCHANGED <<statVars, persisted, taskVars>>
    /\ space_check' = NoSpaceCheck      \* the local is not read after line 116
    /\ UNCHANGED <<validation_result, last_validation, token_ok, operation, on_disk, failed_at_call, stop_phase>>

\* group_by_hierarchy: a dict of three dicts, each from a key to its records; a
\* record without a chapter gets no entry in por_capitulo
group_by_hierarchy(lista) ==
    LET scan_key(f) == EstruturaHierarquica(f).scan
        serie_key(f) == EstruturaHierarquica(f).scan \o "/" \o EstruturaHierarquica(f).serie
        capitulo_key(f) == serie_key(f) \o "/" \o EstruturaHierarquica(f).capitulo
        com_capitulo == {f \in lista : EstruturaHierarquica(f).capitulo # ""}
    IN [por_scan |-> [k \in {scan_key(f) : f \in lista} |->
                         {f \in lista : scan_key(f) = k}],
        por_serie |-> [k \in {serie_key(f) : f \in lista} |->
                         {f \in lista : serie_key(f) = k}],
        por_capitulo |-> [k \in {capitulo_key(f) : f \in com_capitulo} |->
                         {f \in com_capitulo : capitulo_key(f) = k}]]

\* the keys of one grouping in the order a loop over the dict yields them: the
\* insertion order, which is the order of each key's first record
Keys(grouping) ==
    LET first(k) == CHOOSE f \in grouping[k] : \A g \in grouping[k] : f <= g
    IN [i \in 1..Cardinality(DOMAIN grouping) |->
          CHOOSE k \in DOMAIN grouping :
              Cardinality({j \in DOMAIN grouping : first(j) < first(k)}) = i - 1]

\* _prepare_upload_groups(estruturas) of the active run
upload_groups == group_by_hierarchy(estruturas)

\* total_files = sum(len(files) for files in upload_groups.values()): the values
\* are the three inner dicts, so each len is a number of keys
total_files ==
    Cardinality(DOMAIN upload_groups.por_scan) + Cardinality(DOMAIN upload_groups.por_serie)
        + Cardinality(DOMAIN upload_groups.por_capitulo)

\* what the two nested loops of _execute_uploads hand to executor.submit, in
\* order, each with its Python type: "for estrutura in estruturas" runs over an
\* inner dict, that is over its keys
units ==
    LET keys == Keys(upload_groups.por_scan) \o Keys(upload_groups.por_serie)
                    \o Keys(upload_groups.por_capitulo)
    IN [i \in 1..Len(keys) |-> [type |-> "str", value |-> keys[i]]]

\* the futures whose task was given the record of file f
DispatchedAs(f) ==
    {i \in submitted : units[i].type = "EstruturaHierarquica" /\ units[i].value = f}

\* phase 5: _prepare_upload_groups
PrepareUploadGroups(c) ==
    /\ pc[c] = "prepare"
    /\ current_operation' = "Preparando upload"
    /\ Enter(c, {"group"})
    /\ \/ pc' = [pc EXCEPT ![c] = "upload"] /\ UNCHANGED result
       \/ Leave(c, "unexpected_error")
    /\ UNCHANGED <<is_running, should_stop, estruturas, submitted, collected, counts,
                   upload_result, temp_files, cleanup, conversion_service, legacyVars>>
    /\ UNCHANGED <<statVars, persisted, taskVars>>
    /\ space_check' = NoSpaceCheck      \* the local is not read after line 116
    /\ UNCHANGED <<validation_result, last_validation, token_ok, operation, on_disk, failed_at_call, stop_phase>>

\* phase 6: progress_callback(self._current_operation, 5, 6), then the entry of
\* _execute_uploads (fresh pool, fresh local counters, fresh ProgressBar)
ExecuteUploads(c) ==
    /\ pc[c] = "upload"
    /\ current_operation' = "Realizando upload"
    /\ Enter(c, {"upload"})
    /\ submitted' = {}
    /\ collected' = {}
    /\ counts' = ZeroCounts
    /\ upload_result' = NoResult
    /\ fut' = [i \in Futures |-> "none"]
    /\ taskResult' = [i \in Futures |-> "none"]
    /\ progress_current' = 0
    /\ callback_calls' = {<<5, 6>>}
    /\ pc' = [pc EXCEPT ![c] = "submit"]
    /\ UNCHANGED <<result, is_running, should_stop, estruturas, temp_files, cleanup,
                   conversion_service, legacyCore>>
    /\ UNCHANGED <<statVars, persisted, fileInfoVars>>
    /\ UNCHANGED <<validation_result, space_check, last_validation, token_ok, operation, on_disk, failed_at_call, stop_phase>>

\* for group_name, estruturas in upload_groups.items(): for estrutura in
\* estruturas: if self._should_stop: break; futures.append(executor.submit(...)).
\* With total_files == 0 the call returns before the pool exists.
Submit(c) ==
    /\ pc[c] = "submit"
    /\ LET i == Cardinality(submitted) + 1 IN
         IF total_files = 0
           THEN /\ pc' = [pc EXCEPT ![c] = "shutdown"]
                /\ UNCHANGED <<submitted, fut>>
           ELSE IF i > Len(units) \/ should_stop
           THEN /\ pc' = [pc EXCEPT ![c] = "collect"]
                /\ UNCHANGED <<submitted, fut>>
           ELSE /\ submitted' = submitted \cup {i}
                /\ fut' = [fut EXCEPT ![i] = "queued"]
                /\ UNCHANGED pc
    /\ UNCHANGED <<result, is_running, should_stop, current_operation, estruturas,
                   collected, counts, upload_result, temp_files, cleanup,
                   conversion_service, legacyVars>>
    /\ UNCHANGED <<statVars, persisted, taskResult, fileInfoVars>>
    /\ UNCHANGED runVars

\* ------------------------------------------------------------- pool tasks

Running == {i \in Futures : fut[i] = "running"}

\* a pool in which a queued work item starts whatever the number of running ones
TaskStart_Unbounded(i) ==
    /\ fut[i] = "queued"
    /\ \A j \in Futures : fut[j] = "queued" => i <= j
    /\ fut' = [fut EXCEPT ![i] = "running"]
    /\ UNCHANGED <<legacyVars, mgrVars, statVars, persisted, taskResult, fileInfoVars>>

\* a worker of ThreadPoolExecutor(max_workers = max_concurrent_uploads) takes the
\* oldest queued work item and calls _upload_single_file(units[i])
TaskStart(i) ==
    /\ fut[i] = "queued"
    /\ Cardinality(Running) < MaxWorkers
    /\ \A j \in Futures : fut[j] = "queued" => i <= j
    /\ fut' = [fut EXCEPT ![i] = "running"]
    /\ UNCHANGED <<legacyVars, mgrVars, statVars, persisted, taskResult, fileInfoVars>>

\* _upload_single_file(estrutura) with estrutura a key (a str): the read of
\* estrutura.caminho_local raises AttributeError inside the try, the except clause
\* reads it again while building its result, and that exception leaves the
\* function: the future holds an exception and no request has been sent
UploadSingleFile(i) ==
    /\ fut[i] = "running"
    /\ fut' = [fut EXCEPT ![i] = "done"]
    /\ taskResult' = [taskResult EXCEPT ![i] = "raised"]
    /\ UNCHANGED <<legacyVars, mgrVars, statVars, persisted, fileInfoVars>>

\* ------------------------------------------------------------- FileUploader

SetStatus(f, s) == status' = [status EXCEPT ![f] = s]

\* upload_with_retry returns r
Finish(f, r) == call' = [call EXCEPT ![f] = r]

\* upload_with_retry after a failed upload_file: next attempt, or give up
MoreAttempts(n) == n < retry_attempts

\* attempt number n of file f failed
AfterFailure(f, n) ==
    IF MoreAttempts(n)
      THEN call' = [call EXCEPT ![f] = "pre"]
      ELSE Finish(f, "False")

UploaderFrame == UNCHANGED <<legacyVars, mgrVars, statVars, persisted, fut, taskResult>>

\* upload_with_retry(file_info, remote_path, max_attempts) is called with a
\* FileInfo as FileInfo.from_path built it (status PENDING, no attempt yet)
UploadWithRetry(f) ==
    /\ call[f] = "none"
    /\ call' = [call EXCEPT ![f] = "pre"]
    /\ SetStatus(f, "pending")
    /\ UNCHANGED <<upload_attempts, puts, unauthorized>>
    /\ UploaderFrame

\* a request of file f is answered 401 Unauthorized
Answer401(f) == unauthorized' = IF unauthorized = NoFile THEN f ELSE unauthorized

\* upload_file up to the transfer: check_file_exists (the remote's answer is an
\* input), create_directory, get_upload_url; the client turns an error status of
\* these requests into False / None
UploadFilePre(f) ==
    /\ call[f] = "pre"
    /\ upload_attempts' = [upload_attempts EXCEPT ![f] = @ + 1]
    /\ \/ /\ SetStatus(f, "skipped")       \* the object already exists
          /\ Finish(f, "True")
          /\ UNCHANGED unauthorized
       \/ /\ SetStatus(f, "failed")        \* mkdir / upload url / unexpected error
          /\ \/ ~token_ok /\ Answer401(f)
             \/ UNCHANGED unauthorized
          /\ AfterFailure(f, upload_attempts[f] + 1)
       \/ /\ SetStatus(f, "uploading")
          /\ call' = [call EXCEPT ![f] = "put"]
          /\ UNCHANGED unauthorized
    /\ UNCHANGED puts
    /\ UploaderFrame

\* requests.put, raise_for_status, confirm_upload
UploadFilePut(f) ==
    /\ call[f] = "put"
    /\ puts' = [puts EXCEPT ![f] = @ + 1]
    /\ \/ /\ SetStatus(f, "uploaded")
          /\ Finish(f, "True")
          /\ UNCHANGED unauthorized
       \/ /\ SetStatus(f, "failed")        \* timeout, reset, TLS or HTTP error,
          /\ \/ ~token_ok /\ Answer401(f)  \* confirm failed
             \/ UNCHANGED unauthorized
          /\ AfterFailure(f, upload_attempts[f])
    /\ UNCHANGED upload_attempts
    /\ UploaderFrame

\* ------------------------------------------------------------- collector

Bump(rec, field) == [rec EXCEPT ![field] = @ + 1]

\* for future in as_completed(futures): if self._should_stop: break; then
\* future.result() re-raises the task's exception and the except clause counts a
\* failure (failed += 1, add_failed(), progress.update()) without recording a
\* path; the branches on result['status'] need a task that returned
Collect(c) ==
    /\ pc[c] = "collect"
    /\ IF submitted \ collected = {}
         THEN /\ pc' = [pc EXCEPT ![c] = "shutdown"]
              /\ UNCHANGED <<collected, counts, stats, countedAs, progress_current>>
         ELSE \E i \in submitted \ collected :
              /\ fut[i] = "done"
              /\ IF should_stop
                   THEN /\ pc' = [pc EXCEPT ![c] = "shutdown"]
                        /\ UNCHANGED <<collected, counts, stats, countedAs,
                                       progress_current>>
                   ELSE /\ statsLock = NoOwner
                        /\ taskResult[i] = "raised"
                        /\ collected' = collected \cup {i}
                        /\ counts' = Bump(counts, "failed")
                        /\ stats' = Bump(stats, "failed_files")
                        /\ countedAs' = [countedAs EXCEPT ![i] = Bump(@, "failed")]
                        /\ progress_current' = progress_current + 1   \* progress.update()
                        /\ UNCHANGED pc
    /\ UNCHANGED <<result, is_running, should_stop, current_operation, estruturas,
                   submitted, upload_result, temp_files, cleanup, conversion_service,
                   legacyCore, callback_calls>>
    /\ UNCHANGED <<statsLock, persisted, taskVars>>
    /\ UNCHANGED runVars

\* leaving the "with ThreadPoolExecutor" block waits for every submitted task
Shutdown(c) ==
    /\ pc[c] = "shutdown"
    /\ \A i \in submitted : fut[i] = "done"
    /\ upload_result' = IF total_files = 0
                          THEN [NoResult EXCEPT !.returned = TRUE]
                          ELSE [uploaded |-> counts.uploaded, skipped |-> counts.skipped,
                                failed |-> counts.failed, total |-> total_files,
                                stopped_early |-> should_stop, returned |-> TRUE]
    /\ pc' = [pc EXCEPT ![c] = IF operation[c] = "retry_failed_files"
                                  THEN "retry_return" ELSE "stop_timer"]
    /\ UNCHANGED <<result, is_running, should_stop, current_operation, estruturas,
                   submitted, collected, counts, temp_files, cleanup, conversion_service, legacyVars>>
    /\ UNCHANGED <<statVars, persisted, taskVars>>
    /\ UNCHANGED runVars

\* ------------------------------------------------------------- SyncStatsManager

\* get_final_stats: self.stop_timer()
StopTimer(c) ==
    /\ pc[c] = "stop_timer"
    /\ statsLock = NoOwner
    /\ pc' = [pc EXCEPT ![c] = "final_lock"]
    /\ UNCHANGED <<result, is_running, should_stop, current_operation, estruturas,
                   submitted, collected, counts, upload_result, temp_files, cleanup,
                   conversion_service, legacyVars>>
    /\ UNCHANGED <<statVars, persisted, taskVars>>
    /\ UNCHANGED runVars

\* get_final_stats: with self._lock:
FinalStatsLock(c) ==
    /\ pc[c] = "final_lock"
    /\ statsLock = NoOwner
    /\ statsLock' = c
    /\ pc' = [pc EXCEPT ![c] = "final_current"]
    /\ UNCHANGED <<result, is_running, should_stop, current_operation, estruturas,
                   submitted, collected, counts, upload_result, temp_files, cleanup,
                   conversion_service, legacyVars>>
    /\ UNCHANGED <<stats, countedAs, persisted, taskVars>>
    /\ UNCHANGED runVars

\* the observer thread of get_status
Observer == NumCallers + 1

\* threading.Lock is not reentrant: it can be taken only when nobody holds it
LockFree(t) == statsLock = NoOwner

\* get_current_stats: with self._lock: ... ; called by get_status (any thread)
\* and, inside its own locked block, by get_final_stats
GetCurrentStats(t) ==
    /\ LockFree(t)
    /\ IF t \in Callers
         THEN /\ pc[t] = "final_current"
              /\ statsLock' = NoOwner
              /\ Leave(t, "success")
         ELSE UNCHANGED <<pc, result, statsLock>>
    /\ UNCHANGED <<is_running, should_stop, current_operation, estruturas,
                   submitted, collected, counts, upload_result, temp_files, cleanup,
                   conversion_service, legacyVars>>
    /\ UNCHANGED <<stats, countedAs, persisted, taskVars>>
    /\ UNCHANGED runVars

\* ------------------------------------------------------------- finally, stop

\* a finally clause whose cleanup is not wrapped in try/except: the cleanup's
\* exception leaves the clause before the flags are cleared
Finally_CleanupEscapes(c) ==
    /\ pc[c] = "finally"
    /\ IF conversion_service
         THEN \/ /\ temp_files' = 0 /\ cleanup' = [cleanup EXCEPT ![c] = "done"]
                 /\ is_running' = FALSE
                 /\ current_operation' = "None"
              \/ /\ UNCHANGED temp_files /\ cleanup' = [cleanup EXCEPT ![c] = "raised"]
                 /\ UNCHANGED <<is_running, current_operation>>
         ELSE /\ UNCHANGED <<temp_files, cleanup>>
              /\ is_running' = FALSE
              /\ current_operation' = "None"
    /\ pc' = [pc EXCEPT ![c] = "returned"]
    /\ UNCHANGED <<result, should_stop, estruturas, submitted, collected, counts,
                   upload_result, conversion_service, legacyVars>>
    /\ UNCHANGED <<statVars, persisted, taskVars>>
    /\ UNCHANGED runVars

\* finally: cleanup_temp_files (its exception is swallowed), then
\* with self._lock: _is_running = False; _current_operation = None
Finally(c) ==
    /\ pc[c] = "finally"
    /\ IF conversion_service
         THEN \/ temp_files' = 0 /\ cleanup' = [cleanup EXCEPT ![c] = "done"]
              \/ UNCHANGED temp_files /\ cleanup' = [cleanup EXCEPT ![c] = "raised"]
         ELSE UNCHANGED <<temp_files, cleanup>>
    /\ is_running' = FALSE
    /\ current_operation' = "None"
    /\ pc' = [pc EXCEPT ![c] = "returned"]
    /\ UNCHANGED <<result, should_stop, estruturas, submitted, collected, counts,
                   upload_result, conversion_service, legacyVars>>
    /\ UNCHANGED <<statVars, persisted, taskVars>>
    /\ UNCHANGED runVars

\* the part of the run a position belongs to
PhaseOf(p) ==
    CASE p \in {"auth", "scan", "validate", "storage", "convert", "prepare", "upload"}
            -> "before_uploading"
      [] p \in {"submit", "collect", "shutdown"} -> "uploading"
      [] OTHER -> "after_uploading"

\* stop_sync: with self._lock: if self._is_running: self._should_stop = True
StopSync ==
    /\ is_running
    /\ should_stop' = TRUE
    /\ stop_phase' = IF should_stop THEN stop_phase
                      ELSE IF \E c \in Callers : pc[c] \in ActivePC
                        THEN PhaseOf(pc[CHOOSE c \in Callers : pc[c] \in ActivePC])
                        ELSE "none"
    /\ UNCHANGED <<pc, result, is_running, current_operation, estruturas, submitted,
                   collected, counts, upload_result, temp_files, cleanup,
                   conversion_service, legacyVars>>
    /\ UNCHANGED <<statVars, persisted, taskVars>>
    /\ UNCHANGED <<validation_result, space_check, last_validation, token_ok, operation, on_disk, failed_at_call, events>>

NextManager ==
    \/ \E c \in Callers :
         \/ StartSyncGuard(c)
         \/ ValidateToken(c)
         \/ ScanFiles(c)
         \/ ValidateFiles(c)
         \/ CheckStorage(c)
         \/ Convert(c)
         \/ PrepareUploadGroups(c)
         \/ ExecuteUploads(c)
         \/ Submit(c)
         \/ Collect(c)
         \/ Shutdown(c)
         \/ StopTimer(c)
         \/ FinalStatsLock(c)
         \/ Finally(c)
    \/ \E t \in Callers \cup {Observer} : GetCurrentStats(t)
    \/ \E i \in Futures : TaskStart(i) \/ UploadSingleFile(i)
    \/ StopSync

SpecManager == InitManager /\ [][NextManager]_vars

\* remote service: the token is revoked (or expires)
RevokeToken ==
    /\ token_ok
    /\ token_ok' = FALSE
    /\ UNCHANGED <<operation, on_disk, failed_at_call>>
    /\ UNCHANGED <<pc, result, is_running, should_stop, current_operation, estruturas,
                   submitted, collected, counts, upload_result, temp_files, cleanup,
                   conversion_service, legacyVars>>
    /\ UNCHANGED <<statVars, persisted, taskVars>>
    /\ UNCHANGED <<validation_result, space_check, last_validation, stop_phase, events>>

\* one start_sync call, its pool, stop_sync, and a token that can be revoked meanwhile
NextRun ==
    \/ StartSyncGuard(1)
    \/ ValidateToken(1)
    \/ ScanFiles(1)
    \/ ValidateFiles(1)
    \/ CheckStorage(1)
    \/ Convert(1)
    \/ PrepareUploadGroups(1)
    \/ ExecuteUploads(1)
    \/ Submit(1)
    \/ Collect(1)
    \/ Shutdown(1)
    \/ StopTimer(1)
    \/ FinalStatsLock(1)
    \/ Finally(1)
    \/ \E t \in {1, Observer} : GetCurrentStats(t)
    \/ \E i \in Futures : TaskStart(i) \/ UploadSingleFile(i)
    \/ StopSync
    \/ RevokeToken

SpecRun == InitManager /\ [][NextRun]_vars

\* ------------------------------------------------------------- FileUploader calls

\* a FileUploader whose upload_with_retry is called once for each file (as
\* BatchUploader.upload_batch and _upload_single_file call it), with any stored
\* failed list and a token that can be revoked meanwhile
InitUploader ==
    /\ HostRest
    /\ conversion_service = FALSE
    /\ LegacyInit
    /\ config_data = [verify_integrity |-> TRUE, resume_uploads |-> TRUE]
    /\ state_file = EmptyStore
    /\ should_stop = FALSE
    /\ stop_phase = "none"
    /\ operation = [c \in Callers |-> "start_sync"]
    /\ on_disk = Files \cup Estruturas
    /\ persisted \in [failed_files : SUBSET Files, last_root_path : {"root"}]

NextUploader ==
    \/ \E f \in Files : UploadWithRetry(f) \/ UploadFilePre(f) \/ UploadFilePut(f)
    \/ RevokeToken

SpecUploader == InitUploader /\ [][NextUploader]_vars

\* ------------------------------------------------------------- retry_failed_files

\* a get_failed_files that returns the stored list as it is
get_failed_files_Unfiltered(stored) == stored

\* SyncStateManager.get_failed_files: the stored paths that still exist
get_failed_files(stored) == stored \cap on_disk

\* retry_failed_files up to the creation of the pool: get_failed_files (which also
\* stores the filtered list), analyze_file_path of each path against
\* last_root_path, _prepare_upload_groups and the entry of _execute_uploads
RetryFailedFiles(c) ==
    /\ pc[c] = "idle"
    /\ operation[c] = "retry_failed_files"
    /\ LET failed == get_failed_files(persisted.failed_files) IN
       /\ persisted' = [persisted EXCEPT !.failed_files = failed]
       /\ IF failed = {}
            THEN /\ result' = [result EXCEPT ![c] = "nothing_to_retry"]
                 /\ pc' = [pc EXCEPT ![c] = "returned"]
                 /\ UNCHANGED <<estruturas, submitted, collected, counts, upload_result,
                                taskVars, progress_current>>
            ELSE \E valid \in SUBSET (failed \cap on_disk) :
                 /\ persisted.last_root_path = "None" => valid = {}
                 /\ IF valid = {}
                      THEN /\ result' = [result EXCEPT ![c] = "no_valid_retry"]
                           /\ pc' = [pc EXCEPT ![c] = "returned"]
                           /\ UNCHANGED <<estruturas, submitted, collected, counts,
                                          upload_result, taskVars, progress_current>>
                      ELSE /\ estruturas' = valid
                           /\ submitted' = {}
                           /\ collected' = {}
                           /\ counts' = ZeroCounts
                           /\ upload_result' = NoResult
                           /\ fut' = [i \in Futures |-> "none"]
                           /\ taskResult' = [i \in Futures |-> "none"]
                           /\ UNCHANGED fileInfoVars
                           /\ progress_current' = 0
                           /\ pc' = [pc EXCEPT ![c] = "submit"]
                           /\ UNCHANGED result
    /\ failed_at_call' = persisted.failed_files
    /\ UNCHANGED <<is_running, should_stop, current_operation, temp_files, cleanup,
                   conversion_service, legacyCore, callback_calls>>
    /\ UNCHANGED statVars
    /\ UNCHANGED <<validation_result, space_check, last_validation, token_ok, operation,
                   on_disk, stop_phase, events>>

\* return {'success': True, 'result': result}
RetryReturn(c) ==
    /\ pc[c] = "retry_return"
    /\ result' = [result EXCEPT ![c] = "success"]
    /\ pc' = [pc EXCEPT ![c] = "returned"]
    /\ UNCHANGED <<is_running, should_stop, current_operation, estruturas, submitted,
                   collected, counts, upload_result, temp_files, cleanup,
                   conversion_service, legacyVars>>
    /\ UNCHANGED <<statVars, persisted, taskVars>>
    /\ UNCHANGED runVars

\* ------------------------------------------------------------- POST /sync/retry-failed

\* positions of a caller inside _execute_uploads
UploadPC == {"submit", "collect", "shutdown"}

\* the route retry_failed: get_failed_files (which stores the filtered list), the
\* get_status check of is_running, then a thread that calls retry_failed_files
RetryFailedRoute(c) ==
    /\ pc[c] = "idle"
    /\ operation[c] = "retry_failed_route"
    /\ LockFree(c)
    /\ LET failed == get_failed_files(persisted.failed_files) IN
       /\ persisted' = [persisted EXCEPT !.failed_files = failed]
       /\ IF failed = {}
            THEN /\ result' = [result EXCEPT ![c] = "nothing_to_retry"]
                 /\ pc' = [pc EXCEPT ![c] = "returned"]
                 /\ UNCHANGED operation
            ELSE IF is_running
              THEN /\ result' = [result EXCEPT ![c] = "already_running"]
                   /\ pc' = [pc EXCEPT ![c] = "returned"]
                   /\ UNCHANGED operation
              ELSE /\ operation' = [operation EXCEPT ![c] = "retry_failed_files"]
                   /\ UNCHANGED <<pc, result>>
    /\ UNCHANGED <<is_running, should_stop, current_operation, estruturas, submitted,
                   collected, counts, upload_result, temp_files, cleanup,
                   conversion_service, legacyVars>>
    /\ UNCHANGED <<statVars, taskVars>>
    /\ UNCHANGED <<validation_result, space_check, last_validation, token_ok, on_disk,
                   failed_at_call, stop_phase, events>>

\* no other caller is inside _execute_uploads: the locals of _execute_uploads are
\* modelled once, so a caller enters it only when no other call is using them
PoolFree(c) == \A d \in Callers \ {c} : pc[d] \notin UploadPC \cup {"upload"}

\* one SyncManager serving a start_sync request (caller 1) and a retry-failed
\* request (caller 2) whose stored failed list holds one path
InitRoutes ==
    /\ HostRest
    /\ conversion_service = FALSE
    /\ token_ok
    /\ LegacyInit
    /\ config_data = [verify_integrity |-> TRUE, resume_uploads |-> TRUE]
    /\ state_file = EmptyStore
    /\ should_stop = FALSE
    /\ stop_phase = "none"
    /\ operation = [c \in Callers |-> IF c = 1 THEN "start_sync" ELSE "retry_failed_route"]
    /\ on_disk = Files \cup Estruturas
    /\ persisted = [failed_files |-> {1}, last_root_path |-> "root"]

NextRoutes ==
    \/ StartSyncGuard(1)
    \/ ValidateToken(1)
    \/ ScanFiles(1)
    \/ ValidateFiles(1)
    \/ CheckStorage(1)
    \/ PrepareUploadGroups(1)
    \/ PoolFree(1) /\ ExecuteUploads(1)
    \/ Submit(1)
    \/ Collect(1)
    \/ Shutdown(1)
    \/ StopTimer(1)
    \/ FinalStatsLock(1)
    \/ Finally(1)
    \/ RetryFailedRoute(2)
    \/ PoolFree(2) /\ RetryFailedFiles(2)
    \/ Submit(2)
    \/ Collect(2)
    \/ Shutdown(2)
    \/ RetryReturn(2)
    \/ \E i \in Futures : TaskStart(i) \/ UploadSingleFile(i)

SpecRoutes == InitRoutes /\ [][NextRoutes]_vars

\* ------------------------------------------------------------- concurrent store calls

StoreCallFrame == UNCHANGED <<mgrVars, statVars, taskVars, successful_files, hostMark,
                              config_data, sync_stats, storeVars, state_file, provVars,
                              poolVars, remote_calls, serie_of, logs_existentes, economia,
                              resolverVars, logVars, log_io, progressVars,
                              historyVars>>

\* add_failed_file, first statement: failed_files = set(self.get_failed_files());
\* get_failed_files stores the filtered list when it dropped a path
AddFailedFileGet(c) ==
    /\ store_pc[c] = "add_failed_file"
    /\ LET existing_files == get_failed_files(persisted.failed_files) IN
       /\ store_local' = [store_local EXCEPT ![c] = existing_files]
       /\ persisted' = [persisted EXCEPT !.failed_files = existing_files]
    /\ store_pc' = [store_pc EXCEPT ![c] = "add"]
    /\ UNCHANGED store_arg
    /\ StoreCallFrame

\* failed_files.add(file_path); state_manager.set('failed_files', list(failed_files)):
\* StateManager.set assigns the key and saves, without a lock
AddFailedFileSet(c) ==
    /\ store_pc[c] = "add"
    /\ persisted' = [persisted EXCEPT !.failed_files = store_local[c] \cup {store_arg[c]}]
    /\ store_pc' = [store_pc EXCEPT ![c] = "returned"]
    /\ UNCHANGED <<store_arg, store_local>>
    /\ StoreCallFrame

\* two threads that share one SyncStateManager, each about to record a failed
\* upload with add_failed_file
InitStore ==
    /\ HostComponents
    /\ conversion_service = FALSE
    /\ token_ok
    /\ LegacyInit
    /\ config_data = [verify_integrity |-> TRUE, resume_uploads |-> TRUE]
    /\ state_file = EmptyStore
    /\ should_stop = FALSE
    /\ stop_phase = "none"
    /\ operation = [c \in Callers |-> IF c = 1 THEN "start_sync" ELSE "retry_failed_files"]
    /\ on_disk \in SUBSET Files
    /\ persisted \in [failed_files : SUBSET Files, last_root_path : {"root"}]
    /\ store_pc = [c \in Callers |-> "add_failed_file"]
    /\ store_arg \in [Callers -> Files]
    /\ store_local = [c \in Callers |-> {}]

NextStore ==
    \E c \in Callers : AddFailedFileGet(c) \/ AddFailedFileSet(c)

SpecStore == InitStore /\ [][NextStore]_vars

\* ------------------------------------------------------------- properties

Active == {c \in Callers : pc[c] \in ActivePC}

\* every step start_sync itself can take for caller c
CallerStep(c) ==
    \/ StartSyncGuard(c) \/ ValidateToken(c) \/ ScanFiles(c) \/ ValidateFiles(c)
    \/ CheckStorage(c) \/ Convert(c) \/ PrepareUploadGroups(c) \/ ExecuteUploads(c)
    \/ Submit(c) \/ Collect(c) \/ Shutdown(c) \/ StopTimer(c) \/ FinalStatsLock(c)
    \/ GetCurrentStats(c) \/ Finally(c)

\* C1 (invariant part): at most one start_sync call is past the running-flag guard.
C1_OneActive == Cardinality(Active) <= 1

\* C1 (frame part): a start_sync that finds _is_running set returns "already
\* running" and changes neither the flags, the operation, the statistics nor the
\* persisted state.
C1_RejectFrame ==
    \A c \in Callers :
        (pc[c] = "idle" /\ pc'[c] # "idle" /\ is_running) =>
            /\ result'[c] = "already_running"
            /\ pc'[c] = "returned"
            /\ UNCHANGED <<is_running, should_stop, current_operation, stats,
                           countedAs, persisted, estruturas, counts, upload_result>>

\* C1: for any interleaving of start_sync calls, at most one call is past the
\* running-flag guard at a time, and a call made while a run is active is rejected
\* with "already running" and leaves the manager, the statistics and the persisted
\* state unchanged.
C1_SingleActiveRun == [](C1_OneActive) /\ [][C1_RejectFrame]_vars

\* C1 witness: one call is running while another has been rejected.
C1_Witness ==
    \E c, d \in Callers :
        /\ pc[c] \in ActivePC
        /\ pc[d] = "returned"
        /\ result[d] = "already_running"
        /\ is_running

\* C2: a start_sync run that is past the guard and whose dispatched workers have
\* all finished can always take its next step (so it eventually returns); in
\* particular get_final_stats is never stuck on the statistics lock.
C2_RunCanProceed ==
    \A c \in Callers :
        (pc[c] \in ActivePC /\ \A i \in submitted : fut[i] = "done") =>
            ENABLED CallerStep(c)

\* C3 (step part): the step by which a start_sync that had set the running flag
\* returns clears the flag and the operation, after cleanup_temp_files was invoked
\* when a conversion service exists (a completed cleanup leaves no temp file).
C3_ReturnStep ==
    \A c \in Callers :
        (pc[c] \in ActivePC /\ pc'[c] = "returned") =>
            /\ ~is_running'
            /\ current_operation' = "None"
            /\ conversion_service => cleanup'[c] \in {"done", "raised"}
            /\ cleanup'[c] = "done" => temp_files' = 0

\* C3: whenever start_sync, having set the running flag, returns by any path, the
\* running flag is false and the current operation is None on return, and the
\* temporary-file cleanup has been invoked when a conversion service exists, even
\* if the cleanup itself raised; so the flag is set only while a call is active.
C3_FlagClearedOnReturn ==
    /\ [][C3_ReturnStep]_vars
    /\ [](Active = {} => (~is_running /\ current_operation = "None"))

\* C3 witness: a run that raised in a phase, with a cleanup that raised too, has
\* returned with the flag cleared.
C3_Witness ==
    \E c \in Callers :
        /\ pc[c] = "returned"
        /\ result[c] = "unexpected_error"
        /\ cleanup[c] = "raised"
        /\ Active = {}
        /\ ~is_running

Processed == stats.uploaded_files + stats.skipped_files + stats.failed_files

Completed == \E c \in Callers : pc[c] \in {"stop_timer", "final_lock", "final_current"}
                                 /\ ~upload_result.stopped_early

\* C4: at every observation point uploaded + skipped + failed == processed <= total,
\* with equality to total when the run is Completed, and every file of the worklist
\* is counted in exactly one counter, once.
C4_StatsInvariant ==
    /\ Processed <= stats.total_files
    /\ Completed => Processed = stats.total_files
    /\ \A i \in Futures :
          countedAs[i].uploaded + countedAs[i].skipped + countedAs[i].failed <= 1
    /\ Completed =>
          \A f \in estruturas :
              \E i \in DispatchedAs(f) :
                  /\ countedAs[i].uploaded + countedAs[i].skipped + countedAs[i].failed = 1
                  /\ DispatchedAs(f) = {i}

PermittedEdges == {<<"pending", "uploading">>, <<"uploading", "uploaded">>,
                   <<"uploading", "failed">>, <<"pending", "skipped">>}

\* C8 (step part): a status change of one file unit follows a permitted edge.
C8_Step ==
    \A f \in Files :
        (status[f] \in FileStatus /\ status'[f] \in FileStatus /\ status'[f] # status[f])
            => <<status[f], status'[f]>> \in PermittedEdges

\* C8: across upload_file and upload_with_retry the status of a file unit changes
\* only along pending -> uploading -> {uploaded | failed} or pending -> skipped, and
\* never leaves uploaded, failed or skipped.
C8_StatusMonotonic == [][C8_Step]_vars

\* ------------------------------------------------------------- resume stores

\* self.file_hashes.get(file_path)
HashOf(p) == IF file_hashes[p] = "absent" THEN "None" ELSE file_hashes[p]

\* SyncState.is_uploaded(file_path, current_hash)
is_uploaded(p, h) == p \in uploaded_files /\ HashOf(p) = h

\* SyncState.mark_uploaded(file_path, file_hash)
mark_uploaded(p, h) ==
    /\ uploaded_files' = uploaded_files \cup {p}
    /\ file_hashes' = [file_hashes EXCEPT ![p] = h]
    /\ failed_files' = failed_files \ {p}
    /\ mark' = [mark EXCEPT ![p] = h]

\* a mark_failed that leaves the path in the uploaded set
mark_failed_KeepUploaded(p) ==
    /\ failed_files' = failed_files \cup {p}
    /\ mark' = [mark EXCEPT ![p] = "failed"]
    /\ UNCHANGED <<uploaded_files, file_hashes>>

\* SyncState.mark_failed(file_path): the stored hash is left in place
mark_failed(p) ==
    /\ failed_files' = failed_files \cup {p}
    /\ uploaded_files' = uploaded_files \ {p}
    /\ mark' = [mark EXCEPT ![p] = "failed"]
    /\ UNCHANGED file_hashes

\* SyncState.save(): writes the document; an I/O error is logged and swallowed
save ==
    \/ state_file' = [exists |-> TRUE, uploaded_files |-> uploaded_files,
                      failed_files |-> failed_files, file_hashes |-> file_hashes,
                      mark |-> mark]
    \/ UNCHANGED state_file

\* SyncState.load(): replaces the three collections when the document exists
load ==
    IF state_file.exists
      THEN /\ uploaded_files' = state_file.uploaded_files
           /\ failed_files' = state_file.failed_files
           /\ file_hashes' = state_file.file_hashes
           /\ mark' = state_file.mark
      ELSE UNCHANGED storeVars

\* SyncStateManager.is_file_uploaded(file_path): no hash is consulted
is_file_uploaded(p) == p \in successful_files

\* SyncStateManager.add_successful_file(file_path, remote_path), called for a file
\* whose content digest is h at that moment
add_successful_file(p, h) ==
    /\ successful_files' = successful_files \cup {p}
    /\ hostMark' = [hostMark EXCEPT ![p] = h]

ResumeFrame == UNCHANGED <<hostVars, config_data, sync_stats, provVars, poolVars,
                           remote_calls, economia, serie_of, logs_existentes,
                           resolverVars, logVars, log_io, storeCallVars, progressVars,
                           historyVars>>

MarkUploadedCall(p, h) ==
    /\ mark_uploaded(p, h)
    /\ UNCHANGED <<state_file, successful_files, hostMark>>
    /\ ResumeFrame

MarkFailedCall(p) ==
    /\ mark_failed(p)
    /\ UNCHANGED <<state_file, successful_files, hostMark>>
    /\ ResumeFrame

SaveCall ==
    /\ save
    /\ UNCHANGED <<storeVars, successful_files, hostMark>>
    /\ ResumeFrame

LoadCall ==
    /\ load
    /\ UNCHANGED <<state_file, successful_files, hostMark>>
    /\ ResumeFrame

AddSuccessfulFileCall(p, h) ==
    /\ add_successful_file(p, h)
    /\ UNCHANGED <<storeVars, state_file>>
    /\ ResumeFrame

InitResume ==
    /\ HostInit
    /\ LegacyInit
    /\ conversion_service = FALSE
    /\ config_data = [verify_integrity |-> TRUE, resume_uploads |-> TRUE]
    /\ state_file = EmptyStore

NextResume ==
    \/ \E p \in Estruturas, h \in FileHash \cup {"None"} : MarkUploadedCall(p, h)
    \/ \E p \in Estruturas : MarkFailedCall(p)
    \/ SaveCall
    \/ LoadCall
    \/ \E p \in Estruturas, h \in FileHash : AddSuccessfulFileCall(p, h)

SpecResume == InitResume /\ [][NextResume]_vars

\* the SyncState part of C6: a positive answer of is_uploaded(p, h) means the last
\* mark applied to p (in memory, or in the loaded document) was mark_uploaded(p, h)
SyncStateAnswersRecorded ==
    \A p \in Estruturas, h \in FileHash : is_uploaded(p, h) => mark[p] = h

\* C6: after any sequence of resume-state operations, a store answers "uploaded"
\* for path p and content hash h only if p is currently recorded as uploaded with
\* hash h; a stale entry (recorded with another hash) never produces a skip. Both
\* stores are covered: SyncState.is_uploaded and SyncStateManager.is_file_uploaded.
C6_UploadedOnlyWithSameHash ==
    \A p \in Estruturas, h \in FileHash :
        /\ is_uploaded(p, h) => mark[p] = h
        /\ is_file_uploaded(p) => hostMark[p] = h

\* ------------------------------------------------------------- legacy pipeline

\* the progress argument of processar_arquivo_individual (line 2102 passes None)
progress == "None"

\* the content digest calculate_file_hash computes for the local files
ContentHash == "h1"

\* resume records a state document can hold for one path
RecordKinds == {"new", "same", "stale", "failed"}

DocOf(k) ==
    [exists |-> TRUE,
     uploaded_files |-> {p \in Estruturas : k[p] \in {"same", "stale"}},
     failed_files |-> {p \in Estruturas : k[p] = "failed"},
     file_hashes |-> [p \in Estruturas |->
                        CASE k[p] = "new" -> "absent"
                          [] k[p] = "stale" -> "h2"
                          [] OTHER -> ContentHash],
     mark |-> [p \in Estruturas |->
                        CASE k[p] = "new" -> "none"
                          [] k[p] = "stale" -> "h2"
                          [] k[p] = "failed" -> "failed"
                          [] OTHER -> ContentHash]]

InitLegacy ==
    /\ HostInit
    /\ LegacyInit
    /\ conversion_service = FALSE
    /\ token_ok
    /\ config_data \in [verify_integrity : BOOLEAN, resume_uploads : BOOLEAN]
    /\ \E k \in [Estruturas -> RecordKinds] : state_file = DocOf(k)

StaticFrame == UNCHANGED <<hostVars, successful_files, hostMark, config_data, serie_of,
                           logs_existentes, resolverVars, log_io, storeCallVars,
                           progressVars, historyVars>>

LegacyFrame == StaticFrame /\ UNCHANGED logVars

\* SyncStats.add_uploaded / add_skipped / add_failed on behalf of record e
AddStat(e, field, ghost) ==
    /\ sync_stats' = Bump(sync_stats, field)
    /\ contrib' = [contrib EXCEPT ![e] = Bump(@, ghost)]

add_uploaded(e) == AddStat(e, "uploaded_files", "uploaded")
add_skipped(e) == AddStat(e, "skipped_files", "skipped")
add_failed(e) == AddStat(e, "failed_files", "failed")

\* mapear_arquivos_locais_silencioso: every record of the model is a mapped file
estruturas_validas == Estruturas

\* the status analisar_status_capitulos derives from one series log
status_do_log(log) ==
    IF log.consolidado /\ log.sucessos = log.total_arquivos /\ log.total_arquivos > 0
      THEN "consolidado"
    ELSE IF log.sucessos = log.total_arquivos /\ log.total_arquivos > 0
      THEN "completo"
    ELSE IF log.sucessos > 0
      THEN "parcial"
      ELSE "pendente"

\* analisar_status_capitulos: a status for every series that has a log
analisar_status_capitulos(logs) ==
    [k \in SeriesKeys |-> IF logs[k].exists THEN status_do_log(logs[k]) ELSE "absent"]

\* a pre-filter that keeps the files of a series whose status is 'completo'
filtrar_arquivos_por_cache_KeepCompleto(validas, status_capitulos) ==
    {e \in validas : status_capitulos[serie_of[e]] # "consolidado"}

\* filtrar_arquivos_por_cache: the files of a 'consolidado' or 'completo' series
\* are dropped, every other file is kept
filtrar_arquivos_por_cache(validas, status_capitulos) ==
    {e \in validas : status_capitulos[serie_of[e]] \notin {"consolidado", "completo"}}

\* a loop body that also skips the files of a 'pendente' series
adiciona_arquivo_DropPendente(st) ==
    CASE st = "consolidado" -> FALSE
      [] st = "completo" -> FALSE
      [] st = "pendente" -> FALSE
      [] OTHER -> TRUE

\* the body of the loop of filtrar_arquivos_por_cache for a file whose series has
\* this status ("absent": the series has no log): TRUE when it reaches the append,
\* FALSE when it ends in 'continue'
adiciona_arquivo(st) ==
    CASE st = "consolidado" -> FALSE
      [] st = "completo" -> FALSE
      [] st = "parcial" -> TRUE
      [] OTHER -> TRUE

\* the list arquivos_filtrados that the loop builds from the list estruturas_validas
arquivos_filtrados(lista, status_capitulos) ==
    SelectSeq(lista, LAMBDA e : adiciona_arquivo(status_capitulos[serie_of[e]]))

\* the list of mapped files, in the order of the walk
lista_validas == [i \in 1..NumEstruturas |-> i]

\* the records submitted to the pool, and the n-th of them in submission order
Worklist == {e \in Estruturas : lpc[e] # "none"}
NthOf(W, n) == CHOOSE e \in W : Cardinality({d \in W : d <= e}) = n

\* obter_id_raiz: the root id is requested unless it is cached
obter_id_raiz_request ==
    remote_calls' = IF cache_diretorios["raiz"] = "absent"
                      THEN remote_calls \cup {"GET fs"} ELSE remote_calls

\* executar_sincronizacao up to the submission of the pool tasks: sync_state.load(),
\* obter_id_raiz, then processar_sincronizacao_simples sets total_files, zeroes the
\* counters and submits one processar_arquivo_individual task per record
ExecutarSincronizacao ==
    /\ dpc = "init"
    /\ load
    /\ \/ \* obter_id_raiz failed: nothing is processed
          /\ dpc' = "done"
          /\ UNCHANGED <<cache_diretorios, sync_stats, lpc, economia>>
       \/ \E gikamura \in BOOLEAN :
          LET estruturas_para_processar ==
                 filtrar_arquivos_por_cache(estruturas_validas,
                                            analisar_status_capitulos(logs_existentes)) IN
             /\ cache_diretorios' =
                   [cache_diretorios EXCEPT !["raiz"] = "raiz",
                        !["Gikamura"] = IF gikamura THEN "gikamura" ELSE "absent"]
             /\ economia' = Cardinality(estruturas_validas)
                                - Cardinality(estruturas_para_processar)
             /\ IF estruturas_para_processar = {}
                  THEN /\ dpc' = "done"      \* "Todos os arquivos já foram enviados"
                       /\ UNCHANGED <<sync_stats, lpc>>
                  ELSE /\ sync_stats' = [ZeroStats EXCEPT !.total_files =
                                             Cardinality(estruturas_para_processar)]
                       /\ lpc' = [e \in Estruturas |->
                                    IF e \in estruturas_para_processar THEN "queued"
                                                                        ELSE "none"]
                       /\ dpc' = "join"
    /\ obter_id_raiz_request
    /\ UNCHANGED <<state_file, remote_dirs, nivel, id_diretorio_pai, joined,
                   put_requests, outcome, contrib, resume_match>>
    /\ LegacyFrame

Executing == {e \in Estruturas : lpc[e] \notin {"none", "queued", "returned", "raised"}}

\* a pool thread takes the task: verificar_sucesso_no_log, then the first lines of
\* garantir_caminho_remoto (full-path cache hit, or the Gikamura entry)
ProcessarArquivoIndividual(e) ==
    /\ lpc[e] = "queued"
    /\ Cardinality(Executing) < max_workers
    /\ \A d \in Estruturas : d < e => lpc[d] # "queued"
    /\ \/ \* the series log already has the consolidated chapter: return True
          /\ lpc' = [lpc EXCEPT ![e] = "returned"]
          /\ outcome' = [outcome EXCEPT ![e] = "log_skip"]
          /\ UNCHANGED <<nivel, id_diretorio_pai>>
       \/ /\ UNCHANGED outcome
          /\ IF cache_diretorios[caminho_remoto] # "absent"
               THEN /\ id_diretorio_pai' =
                          [id_diretorio_pai EXCEPT ![e] = cache_diretorios[caminho_remoto]]
                    /\ lpc' = [lpc EXCEPT ![e] = "sync"]
                    /\ UNCHANGED nivel
               ELSE IF cache_diretorios["Gikamura"] = "absent"
                 THEN /\ lpc' = [lpc EXCEPT ![e] = "nodir"]
                      /\ UNCHANGED <<nivel, id_diretorio_pai>>
                 ELSE /\ id_diretorio_pai' =
                            [id_diretorio_pai EXCEPT ![e] = cache_diretorios["Gikamura"]]
                      /\ nivel' = [nivel EXCEPT ![e] = 1]
                      /\ lpc' = [lpc EXCEPT ![e] = "level"]
    /\ UNCHANGED <<sync_stats, storeVars, state_file, cache_diretorios, remote_dirs,
                   dpc, joined, put_requests, contrib, resume_match, remote_calls, economia>>
    /\ LegacyFrame

\* ------------------------------------------------------------- garantir_caminho_remoto

ProvFrame ==
    /\ UNCHANGED <<sync_stats, storeVars, state_file, dpc, joined, put_requests,
                   outcome, contrib, resume_match, remote_calls, economia>>
    /\ LegacyFrame

\* the directory nome is listed among the children of container pai
Listed(nome, pai) == remote_dirs[nome] = pai

\* return None
ReturnNone(e) ==
    /\ id_diretorio_pai' = [id_diretorio_pai EXCEPT ![e] = "None"]
    /\ lpc' = [lpc EXCEPT ![e] = "nodir"]

\* head of the loop over niveis: a cached level is skipped; after the last level
\* the full remote path is cached and the id returned
LevelCheck(e) ==
    /\ lpc[e] = "level"
    /\ IF nivel[e] > Len(niveis)
         THEN /\ cache_diretorios' =
                    [cache_diretorios EXCEPT ![caminho_remoto] = id_diretorio_pai[e]]
              /\ lpc' = [lpc EXCEPT ![e] = "sync"]
              /\ UNCHANGED <<nivel, id_diretorio_pai>>
         ELSE IF cache_diretorios[niveis[nivel[e]].caminho_cache] # "absent"
           THEN /\ id_diretorio_pai' = [id_diretorio_pai EXCEPT ![e] =
                                          cache_diretorios[niveis[nivel[e]].caminho_cache]]
                /\ nivel' = [nivel EXCEPT ![e] = @ + 1]
                /\ UNCHANGED <<lpc, cache_diretorios>>
           ELSE /\ lpc' = [lpc EXCEPT ![e] = "list"]
                /\ UNCHANGED <<nivel, id_diretorio_pai, cache_diretorios>>
    /\ UNCHANGED remote_dirs
    /\ ProvFrame

\* GET of the parent's children: an error status returns None; otherwise the
\* directory is found, or has to be created
LevelList(e) ==
    /\ lpc[e] = "list"
    /\ \/ ReturnNone(e)
       \/ IF Listed(niveis[nivel[e]].nome_diretorio, id_diretorio_pai[e])
            THEN /\ id_diretorio_pai' =
                       [id_diretorio_pai EXCEPT ![e] = niveis[nivel[e]].nome_diretorio]
                 /\ lpc' = [lpc EXCEPT ![e] = "write"]
            ELSE /\ lpc' = [lpc EXCEPT ![e] = "create"]
                 /\ UNCHANGED id_diretorio_pai
    /\ UNCHANGED <<nivel, cache_diretorios, remote_dirs>>
    /\ ProvFrame

\* POST of the new directory: the remote creates it (200) unless it already exists
\* (409); another status or a connection error returns None
LevelCreate(e) ==
    /\ lpc[e] = "create"
    /\ \/ /\ ReturnNone(e)
          /\ UNCHANGED remote_dirs
       \/ IF Listed(niveis[nivel[e]].nome_diretorio, id_diretorio_pai[e])
            THEN /\ lpc' = [lpc EXCEPT ![e] = "reload"]
                 /\ UNCHANGED <<id_diretorio_pai, remote_dirs>>
            ELSE /\ remote_dirs' = [remote_dirs EXCEPT
                                      ![niveis[nivel[e]].nome_diretorio] = id_diretorio_pai[e]]
                 /\ id_diretorio_pai' =
                       [id_diretorio_pai EXCEPT ![e] = niveis[nivel[e]].nome_diretorio]
                 /\ lpc' = [lpc EXCEPT ![e] = "write"]
    /\ UNCHANGED <<nivel, cache_diretorios>>
    /\ ProvFrame

\* after a 409: list the parent again to recover the id
LevelReload(e) ==
    /\ lpc[e] = "reload"
    /\ \/ ReturnNone(e)
       \/ IF Listed(niveis[nivel[e]].nome_diretorio, id_diretorio_pai[e])
            THEN /\ id_diretorio_pai' =
                       [id_diretorio_pai EXCEPT ![e] = niveis[nivel[e]].nome_diretorio]
                 /\ lpc' = [lpc EXCEPT ![e] = "write"]
            ELSE ReturnNone(e)
    /\ UNCHANGED <<nivel, cache_diretorios, remote_dirs>>
    /\ ProvFrame

\* cache_diretorios[caminho_cache] = id_diretorio_pai; next level
LevelWrite(e) ==
    /\ lpc[e] = "write"
    /\ cache_diretorios' = [cache_diretorios EXCEPT
                              ![niveis[nivel[e]].caminho_cache] = id_diretorio_pai[e]]
    /\ nivel' = [nivel EXCEPT ![e] = @ + 1]
    /\ lpc' = [lpc EXCEPT ![e] = "level"]
    /\ UNCHANGED <<id_diretorio_pai, remote_dirs>>
    /\ ProvFrame

\* ------------------------------------------------------------- sincronizar_arquivo

SyncFrame ==
    /\ UNCHANGED <<state_file, provVars, dpc, joined, remote_calls, economia>>
    /\ LegacyFrame

\* local_hash: the digest when verify_integrity is on, else None
local_hash == IF config_data.verify_integrity THEN ContentHash ELSE "None"

\* the pipeline ends with result r without a salvar_log_serie call;
\* processar_arquivo_individual calls progress.update() next
EndPipeline(e, r) ==
    /\ outcome' = [outcome EXCEPT ![e] = r]
    /\ lpc' = [lpc EXCEPT ![e] = "update"]
    /\ UNCHANGED <<log_data, log_arg>>

\* the entries of the log file of the series of record e, as json.load returns them
load_log(e) ==
    [d \in Estruturas |-> IF serie_of[d] = serie_of[e] THEN historico[d] ELSE "none"]

\* the log files after json.dump has written data to the file of the series of e
dump_log(e, data) ==
    [d \in Estruturas |-> IF serie_of[d] = serie_of[e] THEN data[d] ELSE historico[d]]

\* log_data["historico"].append(entrada) for the file of record e
append_entry(data, e, st) == [data EXCEPT ![e] = st]

\* the pipeline has its result r and calls salvar_log_serie(estrutura, st) from
\* position pos ("log": the body of the outer try, or a handler of the retry loop;
\* "relog": a handler of the outer try); the call loads the log file (lines 790-805)
CallSalvarLogSerie(e, r, st, pos) ==
    /\ outcome' = [outcome EXCEPT ![e] = r]
    /\ lpc' = [lpc EXCEPT ![e] = pos]
    /\ log_arg' = [log_arg EXCEPT ![e] = st]
    /\ log_data' = [log_data EXCEPT ![e] = load_log(e)]

\* sync_stats.add_failed(); sync_state.mark_failed(caminho_local); return False
FailFile(e, r) ==
    /\ add_failed(e)
    /\ mark_failed(e)
    /\ EndPipeline(e, r)

\* add_failed, mark_failed, salvar_log_serie(estrutura, "falha", ...), return False
FailFileLogged(e, r, pos) ==
    /\ add_failed(e)
    /\ mark_failed(e)
    /\ CallSalvarLogSerie(e, r, "falha", pos)

PipelineFrame ==
    /\ UNCHANGED <<state_file, provVars, dpc, joined, remote_calls, economia>>
    /\ StaticFrame

\* garantir_caminho_remoto returned None (lines 538-543)
NoDirectory(e) ==
    /\ lpc[e] = "nodir"
    /\ FailFile(e, "failed_dir")
    /\ UNCHANGED <<put_requests, resume_match, historico, logged, log_raised>>
    /\ PipelineFrame

\* lines 1302-1357: hash, resume check, listing of the destination, existence check
SincronizarArquivo(e) ==
    /\ lpc[e] = "sync"
    /\ resume_match' = [resume_match EXCEPT ![e] = (HashOf(e) = ContentHash)]
    /\ UNCHANGED put_requests
    /\ \/ \* calculate_file_hash returned None
          /\ config_data.verify_integrity
          /\ FailFile(e, "failed_hash")
       \/ IF config_data.resume_uploads /\ local_hash # "None" /\ is_uploaded(e, local_hash)
            THEN /\ add_skipped(e)
                 /\ CallSalvarLogSerie(e, "skipped_resume", "pulado", "log")
                 /\ UNCHANGED storeVars
            ELSE \/ \* the listing was answered with an error status
                    FailFile(e, "failed_list")
                 \/ \* the listing raised, or the local file is missing (lines 1433-1446)
                    FailFileLogged(e, "failed_request", "relog")
                 \/ \* an object of that name is already in the container
                    /\ add_skipped(e)
                    /\ mark_uploaded(e, local_hash)
                    /\ CallSalvarLogSerie(e, "skipped_remote", "sucesso", "log")
                 \/ \* not there: upload
                    /\ lpc' = [lpc EXCEPT ![e] = "put"]
                    /\ UNCHANGED <<sync_stats, contrib, storeVars, outcome, log_data,
                                   log_arg>>
    /\ UNCHANGED <<historico, logged, log_raised>>
    /\ PipelineFrame

\* one iteration of the retry loop (lines 1371-1431): requests.put and its outcome
Put(e) ==
    /\ lpc[e] = "put"
    /\ put_requests' = [put_requests EXCEPT ![e] = @ + 1]
    /\ \/ \* 200 or 201
          /\ add_uploaded(e)
          /\ IF local_hash # "None" THEN mark_uploaded(e, local_hash)
                                    ELSE UNCHANGED storeVars
          /\ CallSalvarLogSerie(e, "uploaded", "sucesso", "log")
       \/ \* another status: no retry
          FailFileLogged(e, "failed_http", "log")
       \/ \* SSLError, timeout or another exception: retry while attempt < max_retries - 1
          IF put_requests[e] < max_retries - 1
            THEN UNCHANGED <<sync_stats, contrib, storeVars, outcome, lpc, log_data,
                             log_arg>>
            ELSE FailFileLogged(e, "failed_retries", "log")
    /\ UNCHANGED <<resume_match, historico, logged, log_raised>>
    /\ PipelineFrame

\* salvar_log_serie from the append to the end (lines 807-831): the loaded document
\* gets the entry and replaces the file. When the access raises, a call made from
\* the body of sincronizar_arquivo is handled at lines 1447-1453 (add_failed,
\* mark_failed and another salvar_log_serie call), while a call made from a handler
\* of the outer try leaves sincronizar_arquivo: processar_arquivo_individual handles
\* it at line 544, the loop of processar_arquivos_falhados at line 1622
SalvarLogSerie(e) ==
    /\ lpc[e] \in {"log", "relog"}
    /\ \/ /\ historico' = dump_log(e, append_entry(log_data[e], e, log_arg[e]))
          /\ logged' = [logged EXCEPT ![e] = log_arg[e]]
          /\ log_data' = [log_data EXCEPT ![e] = NoEntries]
          /\ log_arg' = [log_arg EXCEPT ![e] = "none"]
          /\ lpc' = [lpc EXCEPT ![e] = "update"]
          /\ UNCHANGED <<log_raised, sync_stats, contrib, storeVars>>
       \/ /\ log_io = "faulty"
          /\ log_raised' = [log_raised EXCEPT ![e] = @ + 1]
          /\ UNCHANGED <<historico, logged>>
          /\ IF lpc[e] = "log"
               THEN /\ add_failed(e)
                    /\ mark_failed(e)
                    /\ lpc' = [lpc EXCEPT ![e] = "relog"]
                    /\ log_arg' = [log_arg EXCEPT ![e] = "falha"]
                    /\ log_data' = [log_data EXCEPT ![e] = load_log(e)]
               ELSE /\ lpc' = [lpc EXCEPT ![e] = IF dpc = "retry" THEN "update"
                                                                   ELSE "except"]
                    /\ log_data' = [log_data EXCEPT ![e] = NoEntries]
                    /\ log_arg' = [log_arg EXCEPT ![e] = "none"]
                    /\ UNCHANGED <<sync_stats, contrib, storeVars>>
    /\ UNCHANGED <<outcome, put_requests, resume_match>>
    /\ PipelineFrame

\* progress.update() in processar_arquivo_individual: progress is None, so the call
\* raises AttributeError inside the try block
ProgressUpdate(e) ==
    /\ lpc[e] = "update"
    /\ lpc' = [lpc EXCEPT ![e] = IF progress = "None" THEN "except" ELSE "returned"]
    /\ UNCHANGED <<sync_stats, contrib, storeVars, outcome, put_requests, resume_match>>
    /\ SyncFrame

\* except Exception (lines 544-548): add_failed, then progress.update() raises again
\* and the exception leaves the task
ExceptHandler(e) ==
    /\ lpc[e] = "except"
    /\ add_failed(e)
    /\ lpc' = [lpc EXCEPT ![e] = "raised"]
    /\ UNCHANGED <<storeVars, outcome, put_requests, resume_match>>
    /\ SyncFrame

\* the driver's loop over tasks (lines 2105-2112): task.result() in submission order;
\* an exception of the task adds a failure
TaskResult ==
    /\ dpc = "join"
    /\ joined < Cardinality(Worklist)
    /\ lpc[NthOf(Worklist, joined + 1)] \in {"returned", "raised"}
    /\ IF lpc[NthOf(Worklist, joined + 1)] = "raised"
         THEN add_failed(NthOf(Worklist, joined + 1))
         ELSE UNCHANGED <<sync_stats, contrib>>
    /\ joined' = joined + 1
    /\ UNCHANGED <<dpc, lpc, storeVars, state_file, provVars, put_requests, outcome,
                   resume_match, remote_calls, economia>>
    /\ LegacyFrame

\* after the pool: sync_state.save() (line 2118)
SaveState ==
    /\ dpc = "join"
    /\ joined = Cardinality(Worklist)
    /\ save
    /\ dpc' = "done"
    /\ UNCHANGED <<sync_stats, storeVars, provVars, joined, lpc, put_requests, outcome,
                   contrib, resume_match, remote_calls, economia>>
    /\ LegacyFrame

NextLegacy ==
    \/ ExecutarSincronizacao
    \/ \E e \in Estruturas :
          \/ ProcessarArquivoIndividual(e)
          \/ LevelCheck(e) \/ LevelList(e) \/ LevelCreate(e) \/ LevelReload(e)
          \/ LevelWrite(e)
          \/ NoDirectory(e) \/ SincronizarArquivo(e) \/ Put(e) \/ SalvarLogSerie(e)
          \/ ProgressUpdate(e) \/ ExceptHandler(e)
    \/ TaskResult
    \/ SaveState

SpecLegacy == InitLegacy /\ [][NextLegacy]_vars

\* ------------------------------------------------------------- processar_arquivos_falhados

\* SyncState.retry_failed_files: the failed paths that still exist
retry_failed_files(failed) == failed \cap on_disk

\* the document SyncState.save() writes when the failed set is failed
Document(failed) ==
    [exists |-> TRUE, uploaded_files |-> uploaded_files, failed_files |-> failed,
     file_hashes |-> file_hashes, mark |-> mark]

\* pipeline results for which sincronizar_arquivo returns True
SyncSucceeded == {"uploaded", "skipped_resume", "skipped_remote"}

\* processar_arquivos_falhados up to its loop: retry_failed_files (drops the paths
\* that no longer exist and saves when it dropped one), validar_e_mapear_estrutura
\* of each path (a rejected path leaves the failed set), obter_id_raiz, counters
ProcessarArquivosFalhados ==
    /\ dpc = "init"
    /\ \E c \in Callers : operation[c] = "processar_arquivos_falhados"
    /\ LET existing == retry_failed_files(failed_files) IN
       /\ IF existing # failed_files
            THEN state_file' \in {Document(existing), state_file}
            ELSE UNCHANGED state_file
       /\ IF existing = {}
            THEN /\ failed_files' = existing
                 /\ dpc' = "returned_true"
                 /\ UNCHANGED <<cache_diretorios, sync_stats, lpc, remote_calls, economia>>
            ELSE \E estruturas_retry \in SUBSET existing :
                 /\ failed_files' = estruturas_retry
                 /\ IF estruturas_retry = {}
                      THEN /\ dpc' = "returned_true"
                           /\ UNCHANGED <<cache_diretorios, sync_stats, lpc, remote_calls, economia>>
                      ELSE /\ obter_id_raiz_request
                           /\ \/ /\ dpc' = "returned_false"
                                 /\ UNCHANGED <<cache_diretorios, sync_stats, lpc>>
                              \/ \E gikamura \in BOOLEAN :
                                 /\ cache_diretorios' =
                                       [cache_diretorios EXCEPT !["raiz"] = "raiz",
                                          !["Gikamura"] = IF gikamura THEN "gikamura"
                                                                      ELSE "absent"]
                                 /\ sync_stats' = [ZeroStats EXCEPT !.total_files =
                                                        Cardinality(estruturas_retry)]
                                 /\ lpc' = [e \in Estruturas |->
                                              IF e \in estruturas_retry THEN "queued"
                                                                         ELSE "none"]
                                 /\ dpc' = "retry"
    /\ UNCHANGED <<uploaded_files, file_hashes, mark, remote_dirs, nivel,
                   id_diretorio_pai, joined, put_requests, outcome, contrib,
                   resume_match, economia>>
    /\ LegacyFrame

\* for estrutura in estruturas_retry: the first lines of garantir_caminho_remoto
RetryGarantir(e) ==
    /\ dpc = "retry"
    /\ lpc[e] = "queued"
    /\ Executing = {}
    /\ \A d \in Estruturas : d < e => lpc[d] # "queued"
    /\ IF cache_diretorios[caminho_remoto] # "absent"
         THEN /\ id_diretorio_pai' =
                    [id_diretorio_pai EXCEPT ![e] = cache_diretorios[caminho_remoto]]
              /\ lpc' = [lpc EXCEPT ![e] = "sync"]
              /\ UNCHANGED nivel
         ELSE IF cache_diretorios["Gikamura"] = "absent"
           THEN /\ lpc' = [lpc EXCEPT ![e] = "nodir"]
                /\ UNCHANGED <<nivel, id_diretorio_pai>>
           ELSE /\ id_diretorio_pai' =
                      [id_diretorio_pai EXCEPT ![e] = cache_diretorios["Gikamura"]]
                /\ nivel' = [nivel EXCEPT ![e] = 1]
                /\ lpc' = [lpc EXCEPT ![e] = "level"]
    /\ UNCHANGED <<cache_diretorios, remote_dirs>>
    /\ ProvFrame

\* "if id_diretorio_destino:" is false: nothing is recorded; progress.update()
RetryNoDirectory(e) ==
    /\ dpc = "retry"
    /\ lpc[e] = "nodir"
    /\ outcome' = [outcome EXCEPT ![e] = "failed_dir"]
    /\ lpc' = [lpc EXCEPT ![e] = "returned"]
    /\ UNCHANGED <<sync_stats, contrib, storeVars, put_requests, resume_match>>
    /\ SyncFrame

\* progress.update() of the retry loop: its ProgressBar exists
RetryProgressUpdate(e) ==
    /\ dpc = "retry"
    /\ lpc[e] = "update"
    /\ lpc' = [lpc EXCEPT ![e] = "returned"]
    /\ UNCHANGED <<sync_stats, contrib, storeVars, outcome, put_requests, resume_match>>
    /\ SyncFrame

\* after the loop: sync_state.save(); return success_count > 0
RetrySave ==
    /\ dpc = "retry"
    /\ \A e \in Estruturas : lpc[e] \in {"none", "returned"}
    /\ save
    /\ dpc' = IF \E e \in Estruturas : lpc[e] = "returned" /\ outcome[e] \in SyncSucceeded
                                            /\ log_raised[e] = 0
                THEN "returned_true" ELSE "returned_false"
    /\ UNCHANGED <<sync_stats, storeVars, provVars, joined, lpc, put_requests, outcome,
                   contrib, resume_match, remote_calls, economia>>
    /\ LegacyFrame

\* a retry_failed_files call on a SyncManager whose stored failed list holds any
\* paths, some of which may be gone from the disk; an earlier stopped run may have
\* left the stop flag set
InitRetryHost ==
    /\ HostRest
    /\ LegacyInit
    /\ config_data = [verify_integrity |-> TRUE, resume_uploads |-> TRUE]
    /\ state_file = EmptyStore
    /\ should_stop \in BOOLEAN
    /\ stop_phase = IF should_stop THEN "uploading" ELSE "none"
    /\ operation = [c \in Callers |-> "retry_failed_files"]
    /\ on_disk \in SUBSET Files
    /\ persisted \in [failed_files : SUBSET Files, last_root_path : {"None", "root"}]

\* processar_arquivos_falhados after main has loaded the state document
InitRetryLegacy ==
    /\ HostRest
    /\ should_stop = FALSE
    /\ stop_phase = "none"
    /\ operation = [c \in Callers |-> "processar_arquivos_falhados"]
    /\ persisted = [failed_files |-> {}, last_root_path |-> "None"]
    /\ conversion_service = FALSE
    /\ token_ok
    /\ on_disk \in SUBSET Estruturas
    /\ LegacyRest
    /\ serie_of = OneSeries
    /\ logs_existentes = [k \in SeriesKeys |-> NoLog]
    /\ config_data \in [verify_integrity : BOOLEAN, resume_uploads : BOOLEAN]
    /\ \E k \in [Estruturas -> RecordKinds] : state_file = DocOf(k)
    /\ uploaded_files = state_file.uploaded_files
    /\ failed_files = state_file.failed_files
    /\ file_hashes = state_file.file_hashes
    /\ mark = state_file.mark

InitRetry == InitRetryHost \/ InitRetryLegacy

NextRetry ==
    \/ RetryFailedFiles(1)
    \/ Submit(1)
    \/ Collect(1)
    \/ Shutdown(1)
    \/ RetryReturn(1)
    \/ \E i \in Futures : TaskStart(i) \/ UploadSingleFile(i)
    \/ ProcessarArquivosFalhados
    \/ \E e \in Estruturas :      \* one record at a time: no create meets a 409
          \/ RetryGarantir(e)
          \/ LevelCheck(e) \/ LevelList(e) \/ LevelCreate(e) \/ LevelWrite(e)
          \/ RetryNoDirectory(e) \/ SincronizarArquivo(e) \/ Put(e)
          \/ SalvarLogSerie(e) \/ RetryProgressUpdate(e)
    \/ RetrySave

SpecRetry == InitRetry /\ [][NextRetry]_vars

\* ------------------------------------------------------------- runs with series logs

\* log documents: estatisticas.sucessos, estatisticas.total_arquivos, and whether the
\* historico has a successful .png entry
Logs ==
    {NoLog} \cup
    {[exists |-> TRUE, sucessos |-> n, total_arquivos |-> t, consolidado |-> c] :
        n \in 0..MaxLog, t \in 0..MaxLog, c \in BOOLEAN}

\* the log says that all files of the series succeeded
AllSucceeded(log) ==
    log.exists /\ log.sucessos = log.total_arquivos /\ log.total_arquivos > 0

\* a run over records of two series with any logs; the records of the series
\* outside the subtree of caminho_remoto were all sent by an earlier run
InitCache ==
    /\ HostInit
    /\ conversion_service = FALSE
    /\ token_ok
    /\ LegacyRest
    /\ config_data = [verify_integrity |-> TRUE, resume_uploads |-> TRUE]
    /\ state_file = EmptyStore
    /\ uploaded_files = {}
    /\ failed_files = {}
    /\ file_hashes = [p \in Estruturas |-> "absent"]
    /\ mark = [p \in Estruturas |-> "none"]
    /\ serie_of \in [Estruturas -> SeriesKeys]
    /\ logs_existentes \in [SeriesKeys -> Logs]
    /\ logs_existentes["agregador/scan/outra"].sucessos
          <= logs_existentes["agregador/scan/outra"].total_arquivos
    /\ logs_existentes["agregador/scan/serie"].sucessos
          <= logs_existentes["agregador/scan/serie"].total_arquivos
    /\ AllSucceeded(logs_existentes["agregador/scan/outra"])

SpecCache == InitCache /\ [][NextLegacy]_vars

\* ------------------------------------------------------------- runs with a faulty LOGS_DIR

\* a first run (no state document, no log file) in which any access to a series log
\* file can fail
InitLogIO ==
    /\ HostInit
    /\ conversion_service = FALSE
    /\ token_ok
    /\ ResolverIdle
    /\ LegacyPool
    /\ log_io = "faulty"
    /\ serie_of = OneSeries
    /\ logs_existentes = [k \in SeriesKeys |-> NoLog]
    /\ uploaded_files = {}
    /\ failed_files = {}
    /\ file_hashes = [p \in Estruturas |-> "absent"]
    /\ mark = [p \in Estruturas |-> "none"]
    /\ config_data \in [verify_integrity : BOOLEAN, resume_uploads : {TRUE}]
    /\ state_file = EmptyStore

SpecLogIO == InitLogIO /\ [][NextLegacy]_vars

\* ------------------------------------------------------------- hierarchy resolution

\* names of directories and files below a root
DirSegs == {"ScanX", "SeriesY", "Cap01"}
FileSegs == {"img.jpg", "img.png", "notes.txt"}

\* the root directory /r/Agg and a sibling whose name begins with the root's name
Root == <<"r", "Agg">>
RootSiblings == {"Agg", "Agg2"}

\* config_data['agregador']
agregador_esperado == "Agg"

\* extensoes_validas, for the file names of the model
extensoes_validas == {"img.jpg", "img.png"}

\* str.startswith between path components: a is an initial part of b
NamePrefix(a, b) == a = b \/ (a = "Agg" /\ b = "Agg2")

\* file_path.startswith(root_path) on the normalised absolute paths: the strings
\* agree up to the end of the root's last component
StartsWith(file, root) ==
    /\ Len(file) >= Len(root)
    /\ \A i \in 1..(Len(root) - 1) : file[i] = root[i]
    /\ NamePrefix(root[Len(root)], file[Len(root)])

\* number of leading components two paths share
CommonLen(file, root) ==
    LET Agree(n) == \A i \in 1..n : file[i] = root[i] IN
    CHOOSE n \in 0..Len(root) :
        /\ n <= Len(file)
        /\ Agree(n)
        /\ \A m \in (n + 1)..Len(root) : ~(m <= Len(file) /\ Agree(m))

\* os.path.relpath(file, root).split(os.sep): one ".." per root component the file
\* does not share, then the rest of the file's components
relpath(file, root) ==
    LET k == CommonLen(file, root) IN
    [i \in 1..(Len(root) - k) |-> ".."] \o SubSeq(file, k + 1, Len(file))

\* HierarchyAnalyzer.analyze_file_path
analyze_file_path(file, root) ==
    IF ~StartsWith(file, root) THEN NoEstrutura
    ELSE LET path_parts == relpath(file, root)
             n == Len(path_parts)
             agregador == root[Len(root)]
         IN  IF n < 3 THEN NoEstrutura
             ELSE LET scan == IF n \in {3, 4} THEN path_parts[1] ELSE path_parts[n - 3]
                      serie == IF n \in {3, 4} THEN path_parts[2] ELSE path_parts[n - 2]
                      capitulo == IF n = 3 THEN "" ELSE path_parts[n - 1]
                      arquivo == path_parts[n]
                  IN  IF agregador = "" \/ scan = "" \/ serie = "" \/ arquivo = ""
                        THEN NoEstrutura
                        ELSE [ok |-> TRUE, agregador |-> agregador, scan |-> scan,
                              serie |-> serie, capitulo |-> capitulo, arquivo |-> arquivo]

\* validar_e_mapear_estrutura
validar_e_mapear_estrutura(file, root, agregador) ==
    LET partes == relpath(file, root)
        n == Len(partes)
    IN  IF n < 4 THEN NoEstrutura
        ELSE IF partes[n] \notin extensoes_validas THEN NoEstrutura
        ELSE IF n > 5 /\ \E i \in 5..(n - 1) : partes[i] = "" THEN NoEstrutura
        ELSE [ok |-> TRUE, agregador |-> agregador, scan |-> partes[1],
              serie |-> partes[2], capitulo |-> partes[3], arquivo |-> partes[n]]

\* EstruturaHierarquica.get_caminho_remoto: f"{agregador}/{scan}/{serie}/{capitulo}"
get_caminho_remoto(e) ==
    e.agregador \o "/" \o e.scan \o "/" \o e.serie \o "/" \o e.capitulo

\* local paths: a file of FileSegs at most MaxDepth components below the root or
\* below a sibling of the root
Tails(n) ==
    {dirs \o <<f>> : dirs \in [1..(n - 1) -> DirSegs], f \in FileSegs}

LocalPaths ==
    {<<"r", top>> \o t : top \in RootSiblings, t \in UNION {Tails(n) : n \in 1..MaxDepth}}

ResolverFrame ==
    UNCHANGED <<hostVars, successful_files, hostMark, config_data, sync_stats, storeVars,
                state_file, provVars, poolVars, remote_calls, serie_of, logs_existentes,
                economia, file_path, root_path, logVars, log_io, storeCallVars,
                progressVars, historyVars>>

\* the host scanner or retry maps the path
AnalyzeFilePath ==
    /\ estrutura' = analyze_file_path(file_path, root_path)
    /\ resolver' = "host"
    /\ remote_path' = "None"
    /\ ResolverFrame

\* sync_buzzheavier.py maps the path
ValidarEMapearEstrutura ==
    /\ estrutura' = validar_e_mapear_estrutura(file_path, root_path, agregador_esperado)
    /\ resolver' = "legacy"
    /\ remote_path' = "None"
    /\ ResolverFrame

\* the upload asks the record for its remote path
GetCaminhoRemoto ==
    /\ estrutura.ok
    /\ remote_path' = get_caminho_remoto(estrutura)
    /\ UNCHANGED <<resolver, estrutura>>
    /\ ResolverFrame

InitHierarchy ==
    /\ HostInit
    /\ conversion_service = FALSE
    /\ token_ok
    /\ LegacyPool
    /\ uploaded_files = {}
    /\ failed_files = {}
    /\ file_hashes = [p \in Estruturas |-> "absent"]
    /\ mark = [p \in Estruturas |-> "none"]
    /\ serie_of = OneSeries
    /\ logs_existentes = [k \in SeriesKeys |-> NoLog]
    /\ config_data = [verify_integrity |-> TRUE, resume_uploads |-> TRUE]
    /\ state_file = EmptyStore
    /\ log_io = "ok"
    /\ root_path = Root
    /\ file_path \in LocalPaths
    /\ resolver = "none"
    /\ estrutura = NoEstrutura
    /\ remote_path = "None"

NextHierarchy == AnalyzeFilePath \/ ValidarEMapearEstrutura \/ GetCaminhoRemoto

SpecHierarchy == InitHierarchy /\ [][NextHierarchy]_vars

\* ------------------------------------------------------------- legacy properties

\* tasks whose garantir_caminho_remoto call has returned
CallReturned == {e \in Estruturas :
                    lpc[e] \in {"nodir", "sync", "put", "update", "except", "raised"}}

\* every task called garantir_caminho_remoto and got an id back
AllProvisioned ==
    /\ CallReturned = Estruturas
    /\ \A e \in Estruturas : id_diretorio_pai[e] # "None"

\* the concurrency part of C5 alone: the calls that returned an id returned the same
\* one, the container of the last level
SameContainerId ==
    \A e \in CallReturned :
        id_diretorio_pai[e] # "None" => id_diretorio_pai[e] = niveis[Len(niveis)].nome_diretorio

\* C5: when the workers of the pool concurrently call garantir_caminho_remoto for
\* records of the same not-yet-existing subtree, against a remote that answers a
\* duplicate create with 409, exactly one container exists per directory level
\* (scan, serie, capitulo) once all calls have returned, and all calls return the
\* same non-null id.
C5_OneContainerPerLevel ==
    AllProvisioned =>
        /\ \A d \in DirNames : remote_dirs[d] # "none"
        /\ \A e1, e2 \in Estruturas : id_diretorio_pai[e1] = id_diretorio_pai[e2]

Joined(e) == e \in Worklist /\ Cardinality({d \in Worklist : d <= e}) <= joined

\* pipeline results caused by a failed local read or remote request
IOFailures == {"failed_hash", "failed_list", "failed_request", "failed_http",
               "failed_retries", "failed_dir"}

\* C7 (Scenario D): a file whose content hash equals the hash stored for its path
\* when the pipeline examines it gets no PUT request, and the run statistics gain
\* exactly one skipped and no uploaded or failed on its behalf.
C7_MatchingHashSkipped ==
    \A e \in Estruturas :
        (resume_match[e] /\ Joined(e) /\ outcome[e] \notin IOFailures) =>
            /\ put_requests[e] = 0
            /\ contrib[e] = [uploaded |-> 0, skipped |-> 1, failed |-> 0]

\* C9 (Scenario F): with a ceiling of 3 attempts, a file whose transfer raised on
\* attempts 1 and 2 and succeeded on attempt 3 is counted as uploaded once, never as
\* failed, and its path is not added to the failed set (it is there only if the
\* loaded state document already had it).
C9_ThirdAttemptUploaded ==
    \A e \in Estruturas :
        (outcome[e] = "uploaded" /\ put_requests[e] = max_retries /\ Joined(e)) =>
            /\ contrib[e] = [uploaded |-> 1, skipped |-> 0, failed |-> 0]
            /\ (dpc = "join" /\ e \in failed_files) => e \in state_file.failed_files

\* C10: a transport error on a transfer is retried, a file never gets more transfer
\* attempts than the ceiling, a file whose attempts all failed is recorded as failed
\* exactly once, and the run still takes the result of every task.
C10_RetriedThenFailedOnce ==
    \A e \in Estruturas :
        /\ put_requests[e] <= max_retries
        /\ (lpc[e] = "put" /\ put_requests[e] > 0) => put_requests[e] < max_retries
        /\ (outcome[e] = "failed_retries" /\ Joined(e)) =>
              /\ put_requests[e] = max_retries
              /\ contrib[e] = [uploaded |-> 0, skipped |-> 0, failed |-> 1]
              /\ e \in failed_files

\* ------------------------------------------------------------- stop, phases, errors

\* C11 (step part): once stop_sync has set the flag during the upload phase, a unit
\* no worker has begun stays unstarted; a unit in flight is only carried on or
\* finished; _execute_uploads returns only when every dispatched unit is done, and
\* then reports stopped_early.
C11_Step ==
    /\ \A i \in Futures :
          /\ (should_stop /\ stop_phase = "uploading" /\ fut[i] = "queued")
                => fut'[i] = "queued"
          /\ fut[i] = "running" => fut'[i] \in {"running", "done"}
    /\ (~upload_result.returned /\ upload_result'.returned) =>
          /\ \A i \in submitted : fut[i] = "done"
          /\ should_stop => upload_result'.stopped_early

\* C11: cancellation is cooperative: after stop_sync set the stop flag during the
\* upload phase no unit that has not started is started by any worker, every unit in
\* flight runs to its completion, and the result is reported only after all in-flight
\* units finished, with stopped_early true.
C11_CooperativeStop == [][C11_Step]_vars

\* C12 (state part): a reported stopped_early comes from a stop_sync call made
\* while the run was uploading: never without a call, never from a call made during
\* scanning, validating, checking storage, converting or grouping.
C12_StoppedFromUploading ==
    (upload_result.returned /\ upload_result.stopped_early) => stop_phase = "uploading"

\* C12 (step part): a run starts with the stop flag reset, whatever was requested
\* before it started.
C12_StartResetsStop ==
    \A c \in Callers : (pc[c] = "idle" /\ pc'[c] = "auth") => ~should_stop'

\* C12: the Stopped outcome is reachable only from the Uploading phase via an
\* explicit stop_sync call: a run without a stop_sync call never reports
\* stopped_early, a stop_sync issued while no run is active does not affect the next
\* run, and a stop_sync issued before the upload phase does not make the run end as
\* Stopped.
C12_StoppedOnlyFromUploading ==
    [](C12_StoppedFromUploading) /\ [][C12_StartResetsStop]_vars

\* ------------------------------------------------------------- retry

\* the state a retry leaves when it has done no work: no task, no request, no
\* counter, no directory
NoRetryWork ==
    /\ \A i \in Futures : fut[i] = "none"
    /\ \A f \in Files : puts[f] = 0 /\ upload_attempts[f] = 0
    /\ submitted = {}
    /\ stats = ZeroStats
    /\ \A e \in Estruturas : lpc[e] = "none" /\ put_requests[e] = 0
    /\ remote_calls = {}
    /\ sync_stats = ZeroStats
    /\ \A d \in DirNames : remote_dirs[d] = "none"

\* C13 (step part): a retry call that finds no stored failed path on the disk
\* returns at once with success, and changes nothing but the stored failed list
C13_Step ==
    /\ \A c \in Callers :
          (pc[c] = "idle" /\ pc'[c] # "idle" /\ operation[c] = "retry_failed_files"
             /\ persisted.failed_files \cap on_disk = {}) =>
                /\ pc'[c] = "returned"
                /\ result'[c] = "nothing_to_retry"
                /\ UNCHANGED <<taskVars, statVars, submitted, collected, legacyVars>>
    /\ (dpc = "init" /\ dpc' # "init" /\ failed_files \cap on_disk = {}) =>
                /\ dpc' = "returned_true"
                /\ UNCHANGED <<hostVars, sync_stats, provVars, lpc, put_requests,
                               remote_calls, economia, uploaded_files, file_hashes>>

InCompleteSeries == {e \in Estruturas : AllSucceeded(logs_existentes[serie_of[e]])}

\* the pre-filter has run (it runs once the root container id is known)
Filtered == dpc # "init" /\ cache_diretorios["raiz"] # "absent"

BelowRoot == Len(file_path) > Len(root_path)
                /\ SubSeq(file_path, 1, Len(root_path)) = root_path
Depth == Len(file_path) - Len(root_path)
Segment(i) == file_path[Len(root_path) + i]
IsImage == file_path[Len(file_path)] \in extensoes_validas

\* C15 (record part): an image three components below the root resolves to a record
\* with its first component as scan, its second as series and an empty chapter
C15_Record ==
    (resolver # "none" /\ BelowRoot /\ Depth = 3 /\ IsImage) =>
        /\ estrutura.ok
        /\ estrutura.scan = Segment(1)
        /\ estrutura.serie = Segment(2)
        /\ estrutura.capitulo = ""

\* C15 (path part): the remote path derived from such a record is
\* agregador/scan/serie, without a trailing separator
C15_Path ==
    (resolver # "none" /\ BelowRoot /\ Depth = 3 /\ IsImage /\ remote_path # "None") =>
        remote_path = root_path[Len(root_path)] \o "/" \o Segment(1) \o "/" \o Segment(2)

\* C15 (Scenario A): a file exactly three segments below the root
\* (ScanX/SeriesY/img.jpg) under an aggregator Agg resolves to a record with scan
\* ScanX, series SeriesY and chapter "" whose derived remote path is exactly
\* Agg/ScanX/SeriesY, with no trailing separator and no empty chapter segment.
C15_DepthThreeRemotePath == C15_Record /\ C15_Path

\* C16 (part 1): the resolver returns a record only for a path at least three
\* components below the root
C16_OnlyDeepEnough == (resolver # "none" /\ estrutura.ok) => (BelowRoot /\ Depth >= 3)

\* C16 (part 2): with exactly three components the path resolves, with an empty
\* chapter
C16_Three ==
    (resolver # "none" /\ BelowRoot /\ Depth = 3 /\ IsImage) =>
        (estrutura.ok /\ estrutura.capitulo = "")

\* C16 (part 3): with exactly four components the record holds them in order
C16_Four ==
    (resolver # "none" /\ BelowRoot /\ Depth = 4 /\ IsImage) =>
        /\ estrutura.ok
        /\ estrutura.scan = Segment(1)
        /\ estrutura.serie = Segment(2)
        /\ estrutura.capitulo = Segment(3)
        /\ estrutura.arquivo = Segment(4)

\* C16: the hierarchy resolver succeeds only for paths with at least three segments
\* below the root and rejects every path with fewer; with exactly three segments the
\* chapter is empty, and with exactly four segments the record has scan = segment 1,
\* series = segment 2, chapter = segment 3 and filename = segment 4.
C16_ResolverDepths == C16_OnlyDeepEnough /\ C16_Three /\ C16_Four

\* ------------------------------------------------------------- validation, storage, auth

\* the steps of a run that follow validation
AfterValidation == {"storage", "GET /storage", "convert", "group", "upload"}

\* no file of the run was handed to the pool
NoUploadStep ==
    /\ submitted = {}
    /\ \A i \in Futures : fut[i] = "none"
    /\ \A f \in Files : puts[f] = 0 /\ upload_attempts[f] = 0

\* validation reported an error, or left no valid file
ValidationErrors(v) ==
    v.returned /\ (v.invalid_files # {} \/ v.hierarchy_errors
                     \/ estruturas \ v.invalid_files = {})

\* C17 (step part): _validate_files returning with an error ends the run with the
\* validation failure
C17_Step ==
    \A c \in Callers :
        (pc[c] = "validate" /\ ValidationErrors(validation_result')) =>
            (pc'[c] = "finally" /\ result'[c] = "validation_failed")

\* C17 (state part): a run that failed in validation, or found no valid file, has
\* executed no storage check, conversion, grouping or upload step
C17_NoLaterStep ==
    \A c \in Callers :
        (pc[c] \in {"finally", "returned"}
           /\ result[c] \in {"validation_failed", "no_valid_files"}) =>
              /\ events \cap AfterValidation = {}
              /\ ~space_check.returned
              /\ NoUploadStep

\* C17: if validation of the scanned input set reports any error (an invalid file,
\* a validation error, a hierarchy error) or no valid file remains, the whole run
\* fails in Validating: success is false and no storage check, conversion, grouping
\* or upload step is executed for any file of that run.
C17_ValidationFailsRun == [][C17_Step]_vars /\ [](C17_NoLaterStep)

\* a run failed in validation although a valid file remained
C17_Witness ==
    /\ pc[1] = "returned"
    /\ result[1] = "validation_failed"
    /\ validation_result.invalid_files # {}
    /\ estruturas \ validation_result.invalid_files # {}

\* C19 (step part): the storage check ends the run exactly when the available
\* quota it read is smaller than the bytes the validated files need; without an
\* answer it reports sufficient with a warning and the run goes on
C19_Step ==
    \A c \in Callers :
        (pc[c] = "storage" /\ pc'[c] # "storage" /\ result'[c] # "unexpected_error") =>
            /\ space_check'.returned
            /\ space_check'.required = validation_result.total_size
            /\ (pc'[c] = "finally") <=> (result'[c] = "insufficient_space")
            /\ (result'[c] = "insufficient_space") <=>
                  (space_check'.available # NoQuota
                     /\ space_check'.available < space_check'.required)
            /\ space_check'.available = NoQuota =>
                  /\ space_check'.sufficient
                  /\ space_check'.warning
                  /\ pc'[c] \in {"convert", "prepare"}

\* C19 (state part): a run that failed for lack of space has uploaded nothing
C19_NoUpload ==
    \A c \in Callers :
        (pc[c] \in {"finally", "returned"} /\ result[c] = "insufficient_space") =>
            (NoUploadStep /\ events \cap {"convert", "group", "upload"} = {})

EndedWith(c, r) == pc[c] \in {"finally", "returned"} /\ result[c] = r

\* C18 (part 1): invalid files do not fail the run while a valid file remains
C18_NonFatal ==
    \A c \in Callers :
        (validation_result.returned /\ ~validation_result.hierarchy_errors
           /\ estruturas \ validation_result.invalid_files # {}) =>
              ~EndedWith(c, "validation_failed")

\* C18 (part 2): a run that fails because no valid file is left has sent no request
\* to the remote service
C18_NoNetwork ==
    \A c \in Callers :
        (EndedWith(c, "no_valid_files")
           \/ (EndedWith(c, "validation_failed")
                 /\ estruturas \ validation_result.invalid_files = {})) =>
              events \cap {"GET /me", "GET /storage"} = {}

\* C18: a validation error on one file is non-fatal to the run as long as at least
\* one valid file remains; when validation errors reduce the valid set to zero, the
\* run fails and no network call to the remote service has been made by that run
\* before it fails.
C18_PerFileNonFatal == C18_NonFatal /\ C18_NoNetwork

\* C20 (part 1): a run refused at token validation has scanned and uploaded nothing
C20_AtValidation ==
    \A c \in Callers :
        EndedWith(c, "invalid_token") => ("scan" \notin events /\ NoUploadStep)

\* C20 (part 2): once a request of a file was answered 401, no further request is
\* sent for that file
C20_NoRetry ==
    \A f \in Files :
        unauthorized = f =>
            (upload_attempts'[f] = upload_attempts[f] /\ puts'[f] = puts[f])

\* C20 (part 3): a run in which a request was answered 401 does not complete its
\* upload phase as a normal run does
C20_RunFails ==
    unauthorized # NoFile =>
        \A c \in Callers : pc[c] \notin {"stop_timer", "final_lock", "final_current"}

\* C20: an authentication error (unauthorized response) is fatal to the run and
\* surfaced immediately without retry: at token validation no scan or upload is
\* performed, and on a directory or transfer call during uploading the request is
\* not retried and the run ends as failed.
C20_AuthErrorFatal ==
    [](C20_AtValidation /\ C20_RunFails) /\ [][C20_NoRetry]_vars

\* ------------------------------------------------------------- unexpected exceptions

\* an exception was raised inside the pipeline of record e
RaisedInPipeline(e) == lpc[e] \in {"except", "raised"}

\* C21 (part 1): the exception does not leave the file unit
C21_Caught == \A e \in Estruturas : lpc[e] # "raised"

\* C21 (part 2): once the driver has taken the result of a unit whose pipeline
\* raised, the unit is counted as failed once and its path is in the failed set
C21_Record ==
    \A e \in Estruturas :
        (RaisedInPipeline(e) /\ Joined(e)) =>
            /\ contrib[e].failed = 1
            /\ e \in failed_files

\* C21: an unexpected exception raised inside one file's pipeline is caught at the
\* file-unit boundary and turned into one failed-file record (failed counter +1, path
\* in the failed set of the resume state); it never leaves the unit, and the driver
\* goes on to take the result of every other file.
C21_ExceptionBecomesFailedRecord == C21_Caught /\ C21_Record

\* ------------------------------------------------------------- write errors

\* C22 (step part): a salvar_log_serie call that raises leaves the statistics and the
\* resume state as they are, and the pipeline goes on to return the result it had
C22_Step ==
    \A e \in Estruturas :
        log_raised'[e] # log_raised[e] =>
            /\ UNCHANGED <<sync_stats, contrib, storeVars>>
            /\ lpc'[e] = "update"

\* C22 (state part): a failed write of the state document leaves the run complete
\* and the state in memory
C22_SaveSwallowed ==
    (dpc = "done" /\ Worklist # {}) => joined = Cardinality(Worklist)

\* C22: when writing the resume-state document or a series-log document fails with
\* an I/O error the run continues with the state in memory: it is not aborted, and
\* every file gets the outcome and the statistics it would have had, had the write
\* succeeded.
C22_WriteErrorHarmless == [][C22_Step]_vars /\ [](C22_SaveSwallowed)

\* ------------------------------------------------------------- one upload phase

\* C23: at most one upload phase is executing on a SyncManager at any time:
\* retry_failed_files never dispatches uploads while a start_sync run is active on
\* the same instance, and start_sync never begins while a retry_failed_files call is
\* dispatching uploads.
C23_OneUploadPhase ==
    \A c, d \in Callers :
        (operation[d] = "retry_failed_files" /\ pc[d] \in UploadPC /\ c # d) =>
            ~(operation[c] = "start_sync" /\ pc[c] \in ActivePC)

\* ------------------------------------------------------------- remote hierarchy

\* the path of a remote container, from the aggregator container Gikamura down
RECURSIVE ContainerPath(_)
ContainerPath(id) ==
    IF id = "gikamura" THEN "Gikamura"
    ELSE IF id \in DirNames /\ remote_dirs[id] # "none"
      THEN ContainerPath(remote_dirs[id]) \o "/" \o id
      ELSE "?"

\* C24 (part 1): a provisioning call that returned an id returned the container at
\* Gikamura/scan/serie/capitulo, each level a child of the level before it
C24_Located ==
    \A e \in CallReturned :
        id_diretorio_pai[e] # "None" =>
            ContainerPath(id_diretorio_pai[e]) = "Gikamura/scan/serie/capitulo"

\* C24 (part 2): an entry of cache_diretorios holds the id of the container at
\* exactly the path of its key
C24_CacheExact ==
    /\ \A n \in 1..Len(niveis) :
          cache_diretorios[niveis[n].caminho_cache] # "absent" =>
              ContainerPath(cache_diretorios[niveis[n].caminho_cache])
                  = niveis[n].caminho_cache
    /\ cache_diretorios[caminho_remoto] # "absent" =>
          ContainerPath(cache_diretorios[caminho_remoto]) = "Gikamura/scan/serie/capitulo"

\* C24: a successful provisioning call returns the id of the remote container at
\* aggregator/scan/series/chapter, every missing level being looked up or created
\* as a child of the container of the preceding level, and in every reachable state
\* each entry of the directory cache maps a path prefix to the id of the container at
\* exactly that prefix (so two series of one scan never share a container).
C24_ContainerAtPath == C24_Located /\ C24_CacheExact

\* records whose garantir_caminho_remoto call returned None and whose caller has
\* dealt with the result
ProvisioningFailed == {e \in Estruturas : outcome[e] = "failed_dir"}

\* the caller of the provisioner marked the record failed
C25_MarkedFailed ==
    \A e \in ProvisioningFailed : contrib[e].failed = 1 /\ e \in failed_files

\* a call that has just returned None left no cache entry for the level it failed at
\* nor for the full remote path
C25_NoPartialCache ==
    \A e \in Estruturas :
        lpc[e] = "nodir" /\ nivel[e] \in 1..Len(niveis) =>
            /\ cache_diretorios[niveis[nivel[e]].caminho_cache] = "absent"
            /\ cache_diretorios[caminho_remoto] = "absent"

\* C25: when listing or creating a directory level fails with an error other than a
\* conflict, the provisioning call returns no id, the cache gains no entry for that
\* level or for the full remote path, and the record is marked failed (failed counter
\* +1, path in the failed set) by every caller of the provisioner
C25_ProvisioningFailureMarksFailed == C25_NoPartialCache /\ C25_MarkedFailed

\* both add_failed_file calls have returned
StoreCallsReturned == \A c \in Callers : store_pc[c] = "returned"

\* C26: the mutating operations of the resume state store are serialized: for any
\* interleaving of add_failed_file(p1) and add_failed_file(p2) from different threads,
\* once both calls have returned the persisted list holds both paths (a path that
\* still exists on the disk, as get_failed_files drops the others)
C26_NoLostUpdate ==
    StoreCallsReturned =>
        \A c \in Callers : store_arg[c] \in on_disk => store_arg[c] \in persisted.failed_files

\* the series log of the run: its historico entries, and its estatisticas, which every
\* written document derives from the entries it holds
LogEntries == {e \in Estruturas : historico[e] # "none"}
LogCounter(st) == Cardinality({e \in Estruturas : historico[e] = st})
total_arquivos == Cardinality(LogEntries)

\* salvar_log_serie calls that returned, and those made with status st
LogCalls == {e \in Estruturas : logged[e] # "none"}
LogCallsWith(st) == Cardinality({e \in Estruturas : logged[e] = st})

\* C27: every per-file outcome appends exactly one entry to its series' log and updates
\* the counters: after any set of salvar_log_serie calls, concurrent ones for files of
\* one series included, historico holds one entry per call, total_arquivos is the
\* length of historico, and sucessos, falhas and pulados each equal the number of
\* calls made with that status
C27_OneEntryPerCall ==
    /\ LogEntries = LogCalls
    /\ total_arquivos = Cardinality(LogCalls)
    /\ \A st \in {"sucesso", "falha", "pulado"} : LogCounter(st) = LogCallsWith(st)

\* records whose sincronizar_arquivo call (or the provisioning before it) has just
\* ended, before the driver goes on
PipelineEnded == {e \in Estruturas : lpc[e] = "update"}

\* a successful transfer is recorded as uploaded with its hash and is not failed
C28_StoreOnSuccess ==
    \A e \in PipelineEnded : outcome[e] = "uploaded" =>
        /\ e \in uploaded_files
        /\ file_hashes[e] = ContentHash
        /\ e \notin failed_files

\* a successful transfer has a success entry in the series log
C28_LogOnSuccess ==
    \A e \in PipelineEnded : outcome[e] = "uploaded" => historico[e] = "sucesso"

\* a final failure is in the failed set
C28_StoreOnFailure ==
    \A e \in PipelineEnded : outcome[e] \in IOFailures => e \in failed_files

\* a final failure has a failure entry in the series log
C28_LogOnFailure ==
    \A e \in PipelineEnded : outcome[e] \in IOFailures => historico[e] = "falha"

\* C28: when a file's pipeline ends in success, the resume state records the path as
\* uploaded with its hash, the path is not in the failed set and the series log has a
\* success entry for it; when it ends in final failure, the path is in the failed set
\* and the series log has a failure entry; with integrity checking on or off
C28_OutcomeRecordedInBothStores ==
    /\ C28_StoreOnSuccess
    /\ C28_LogOnSuccess
    /\ C28_StoreOnFailure
    /\ C28_LogOnFailure

\* legacy pipeline: a file found in the listing of its destination gets no PUT, counts
\* as skipped only, and is marked uploaded with the local hash
C29_LegacySkip ==
    \A e \in PipelineEnded : outcome[e] = "skipped_remote" =>
        /\ put_requests[e] = 0
        /\ contrib[e] = [ZeroCounts EXCEPT !.skipped = 1]
        /\ e \in uploaded_files
        /\ HashOf(e) = local_hash
        /\ e \notin failed_files

\* host uploader: a file that check_file_exists found gets no PUT, ends as skipped
\* (neither uploaded nor failed), is recorded as uploaded and leaves the stored
\* failed list
C29_HostSkip ==
    \A f \in Files : (call[f] = "True" /\ status[f] = "skipped") =>
        /\ puts[f] = 0
        /\ f \in successful_files
        /\ f \notin persisted.failed_files

\* C29: when the destination container already holds an object with the file's name,
\* the file is not transferred, it is counted as skipped (not uploaded, not failed),
\* and the resume state is updated all the same: the path is recorded as uploaded
\* with the current local hash and removed from the failed set
C29_SkipUpdatesResumeState == C29_LegacySkip /\ C29_HostSkip

\* an _execute_uploads call returned without a stop request
UploadsCompleted == upload_result.returned /\ ~upload_result.stopped_early

\* every collected unit moved the progress bar by one
C30_CounterPerUnit == progress_current = Cardinality(collected)

\* over a run that is not stopped the callback got (1, total), ..., (total, total)
C30_CallbackPerUnit ==
    UploadsCompleted =>
        \A k \in 1..upload_result.total : <<k, upload_result.total>> \in callback_calls

\* C30: during the upload phase each unit that completes, whatever its outcome,
\* increments the shared progress counter exactly once and causes the progress
\* callback to be invoked with (completed, total); over a run that is not stopped
\* the callback is invoked total times, completed taking the values 1..total
C30_ProgressPerUnit == C30_CounterPerUnit /\ C30_CallbackPerUnit

\* ------------------------------------------------------------- series status and pre-filter

\* a log document whose counters agree with its historico: a successful .png entry
\* is one of the successes, and the successes are among the entries
LogWellFormed(log) ==
    /\ log.exists
    /\ log.sucessos <= log.total_arquivos
    /\ log.consolidado => log.sucessos >= 1

\* the derived status of a series log as the four cases define it
DerivedStatus(log) ==
    IF log.consolidado THEN "consolidado"
    ELSE IF log.sucessos = log.total_arquivos /\ log.total_arquivos > 0 THEN "completo"
    ELSE IF log.sucessos > 0 /\ log.sucessos < log.total_arquivos THEN "parcial"
    ELSE "pendente"

\* C31: the derived status of a series log is consolidated when a consolidated
\* artifact is recorded with success; otherwise complete when successes = total and
\* total > 0; otherwise partial when some but not all files succeeded; otherwise
\* pending; every log maps to exactly one of the four
C31_DerivedStatus ==
    dpc # "init" =>
        \A k \in SeriesKeys : LogWellFormed(logs_existentes[k]) =>
            analisar_status_capitulos(logs_existentes)[k] = DerivedStatus(logs_existentes[k])

\* the list the pre-filter returns in this run
FilterOutput ==
    arquivos_filtrados(lista_validas, analisar_status_capitulos(logs_existentes))

\* files of a series whose status is neither 'consolidado' nor 'completo'
ToProcess == {e \in Estruturas :
                 analisar_status_capitulos(logs_existentes)[serie_of[e]]
                     \notin {"consolidado", "completo"}}

\* C32: the cache pre-filter returns exactly the subsequence of its input, in the
\* original order, of the files whose series status is neither consolidated nor
\* complete: every file of a partial series, of a pending series and of a series
\* without a log is kept, and no file is duplicated or altered; the run hands
\* exactly these files to the pool
C32_FilterKeepsTheRest ==
    Filtered =>
        /\ \A i, j \in 1..Len(FilterOutput) : i < j => FilterOutput[i] < FilterOutput[j]
        /\ {FilterOutput[i] : i \in 1..Len(FilterOutput)} = ToProcess
        /\ Worklist = ToProcess
        /\ economia = NumEstruturas - Len(FilterOutput)

\* the pre-filter kept the file of a series without any success and dropped the file
\* of a complete series
C32_Witness ==
    /\ Filtered
    /\ \E e \in Worklist :
          analisar_status_capitulos(logs_existentes)[serie_of[e]] = "pendente"
    /\ \E d \in Estruturas \ Worklist : TRUE

\* ------------------------------------------------------------- pruning of the failed list

\* the stored failed paths whose file exists on the disk
StillOnDisk(stored) == {p \in stored : p \in on_disk}

\* C33 (step part): the call of get_failed_files at the head of retry_failed_files
\* leaves the pruned list stored, answers "nothing to retry" exactly when the pruned
\* list is empty and retries only paths of that list; without a dropped path the
\* stored document is unchanged. SyncState.retry_failed_files prunes the failed set
\* in the same way, and a document it writes holds the pruned list
C33_Step ==
    /\ \A c \in Callers :
          (pc[c] = "idle" /\ pc'[c] # "idle" /\ operation[c] = "retry_failed_files") =>
                /\ persisted'.failed_files = StillOnDisk(persisted.failed_files)
                /\ (result'[c] = "nothing_to_retry")
                       <=> (StillOnDisk(persisted.failed_files) = {})
                /\ pc'[c] = "submit" => estruturas' \subseteq StillOnDisk(persisted.failed_files)
                /\ persisted.failed_files \subseteq on_disk => persisted' = persisted
    /\ (dpc = "init" /\ dpc' # "init") =>
                /\ failed_files' \subseteq StillOnDisk(failed_files)
                /\ failed_files \subseteq on_disk => state_file' = state_file
                /\ state_file' # state_file =>
                       state_file' = Document(StillOnDisk(failed_files))

Resolved == resolver # "none"

\* no record for a path outside the root directory
C34_OutsideRoot == (Resolved /\ ~BelowRoot) => ~estrutura.ok

\* no record for a file with an unsupported extension
C34_Extension == (Resolved /\ ~IsImage) => ~estrutura.ok

\* a record has no empty scan, series or file name
C34_NoEmptyComponent ==
    (Resolved /\ estrutura.ok) =>
        estrutura.scan # "" /\ estrutura.serie # "" /\ estrutura.arquivo # ""

\* C34: the hierarchy resolver returns no record for every local path that lies
\* outside the root directory (a path in a sibling directory whose name merely starts
\* with the root's name included), for every file with an unsupported extension, and
\* for every path with an empty scan, series or filename component
C34_ResolverRejects == C34_OutsideRoot /\ C34_Extension /\ C34_NoEmptyComponent

\* the components of file_path below the root, and their number
PartsBelowRoot == SubSeq(file_path, Len(root_path) + 1, Len(file_path))

\* C35: for a path with more than four segments below the root, the resolver uses
\* the last two segments before the filename as series and chapter (series =
\* segment n-2, chapter = segment n-1 of n segments) and discards the nesting between
C35_DeepPathUsesLastSegments ==
    (Resolved /\ BelowRoot /\ Depth > 4 /\ estrutura.ok) =>
        /\ estrutura.serie = Segment(Depth - 2)
        /\ estrutura.capitulo = Segment(Depth - 1)
        /\ estrutura.arquivo = Segment(Depth)

\* the host resolver alone on a deep path
C35_HostResolver ==
    (resolver = "host" /\ BelowRoot /\ Depth > 4 /\ estrutura.ok) =>
        /\ estrutura.serie = Segment(Depth - 2)
        /\ estrutura.capitulo = Segment(Depth - 1)
        /\ estrutura.arquivo = Segment(Depth)

\* ------------------------------------------------------------- dispatch of the worklist

\* C36: in the upload phase every hierarchical record of the worklist is dispatched
\* to the per-file pipeline exactly once, and the total used for the progress and
\* for the result equals the number of records of the worklist, for the grouping of
\* records with and without a chapter
C36_EveryRecordDispatchedOnce ==
    UploadsCompleted =>
        /\ \A f \in estruturas : Cardinality(DispatchedAs(f)) = 1
        /\ Cardinality(submitted) = Cardinality(estruturas)
        /\ upload_result.total = Cardinality(estruturas)

StatsValues == 1..NumStats

\* the keys reset_state assigns None to
keys_to_clear == {"failed_files", "successful_files", "last_root_path", "upload_progress",
                  "scan_cache", "sync_history", "last_sync_stats", "last_sync_session"}

StateCallFrame == UNCHANGED <<mgrVars, statVars, taskVars, hostMark, config_data,
                              sync_stats, storeVars, state_file, provVars, poolVars,
                              remote_calls, serie_of, logs_existentes, economia,
                              resolverVars, logVars, log_io, progressVars>>

\* a slice that keeps the whole list
Last_All(seq, n) == seq

\* seq[-n:]: the last n elements of a list
Last(seq, n) == IF Len(seq) <= n THEN seq ELSE SubSeq(seq, Len(seq) - n + 1, Len(seq))

\* save_sync_statistics(stats): state_manager.get('sync_history', []) yields the
\* stored value, which is None after reset_state, and history.append then raises;
\* otherwise the list is extended, cut to its last 10 entries and stored, and
\* last_sync_stats is stored
SaveSyncStatistics(c, entry) ==
    /\ store_pc[c] # "add"
    /\ Len(saved) < MaxSaves
    /\ IF "sync_history" \in none_keys
         THEN /\ store_pc' = [store_pc EXCEPT ![c] = "raised"]
              /\ UNCHANGED historyVars
         ELSE LET history == Append(sync_history, entry) IN
              /\ sync_history' = IF Len(history) > history_limit
                                   THEN Last(history, history_limit) ELSE history
              /\ last_sync_stats' = entry
              /\ none_keys' = none_keys \ {"last_sync_stats"}
              /\ saved' = Append(saved, entry)
              /\ store_pc' = [store_pc EXCEPT ![c] = "returned"]
    /\ UNCHANGED <<store_arg, store_local, persisted, successful_files>>
    /\ StateCallFrame

\* reset_state: state_manager.set(key, None) for every key of keys_to_clear
ResetState(c) ==
    /\ store_pc[c] # "add"
    /\ none_keys' = none_keys \cup keys_to_clear
    /\ persisted' = [failed_files |-> {}, last_root_path |-> "None"]
    /\ successful_files' = {}
    /\ sync_history' = << >>
    /\ last_sync_stats' = NoStats
    /\ store_pc' = [store_pc EXCEPT ![c] = "reset_state"]
    /\ UNCHANGED <<store_arg, store_local, saved>>
    /\ StateCallFrame

\* state_manager.get(key, default) of a list- or dict-valued key: the default
\* stands in for a missing key only, a stored None is returned as it is
StateGet(key, stored) ==
    IF key \in none_keys THEN [none |-> TRUE, value |-> {}]
                         ELSE [none |-> FALSE, value |-> stored]

\* what a call returns: it raised, or returned None, or returned a value
Raised == [raised |-> TRUE, none |-> FALSE, value |-> {}]
Returned(v) == [raised |-> FALSE, none |-> FALSE, value |-> v]
ReturnedNone == [raised |-> FALSE, none |-> TRUE, value |-> {}]

\* get_failed_files(): the loop over the stored value raises TypeError on None
get_failed_files_call ==
    LET failed == StateGet("failed_files", persisted.failed_files) IN
    IF failed.none THEN Raised ELSE Returned(get_failed_files(failed.value))

\* get_successful_files(): the stored value
get_successful_files ==
    LET successful == StateGet("successful_files", successful_files) IN
    IF successful.none THEN ReturnedNone ELSE Returned(successful.value)

\* is_file_uploaded(p): "file_path in successful_files" raises TypeError on None
is_file_uploaded_call(p) ==
    IF get_successful_files.none THEN Raised
    ELSE Returned({p} \cap get_successful_files.value)

\* get_sync_history(): the stored value (its length stands for the list)
get_sync_history ==
    LET history == StateGet("sync_history", {Len(sync_history)}) IN
    IF history.none THEN ReturnedNone ELSE Returned(history.value)

\* add_failed_file(file_path) as one call of one thread: get_failed_files, add, set
AddFailedFile(c, p) ==
    /\ store_pc[c] # "add"
    /\ IF get_failed_files_call.raised
         THEN /\ store_pc' = [store_pc EXCEPT ![c] = "raised"]
              /\ UNCHANGED <<persisted, none_keys>>
         ELSE /\ persisted' = [persisted EXCEPT
                                 !.failed_files = get_failed_files_call.value \cup {p}]
              /\ none_keys' = none_keys \ {"failed_files"}
              /\ store_pc' = [store_pc EXCEPT ![c] = "returned"]
    /\ UNCHANGED <<store_arg, store_local, successful_files, sync_history,
                   last_sync_stats, saved>>
    /\ StateCallFrame

\* a fresh state file, and one thread that uses the SyncStateManager
InitHistory ==
    /\ HostRest
    /\ conversion_service = FALSE
    /\ token_ok
    /\ LegacyInit
    /\ config_data = [verify_integrity |-> TRUE, resume_uploads |-> TRUE]
    /\ state_file = EmptyStore
    /\ should_stop = FALSE
    /\ stop_phase = "none"
    /\ operation = [c \in Callers |-> "start_sync"]
    /\ on_disk = Files \cup Estruturas
    /\ persisted = [failed_files |-> {}, last_root_path |-> "None"]

NextHistory == \E entry \in StatsValues : SaveSyncStatistics(1, entry)

SpecHistory == InitHistory /\ [][NextHistory]_vars

NextReset ==
    \/ \E entry \in StatsValues : SaveSyncStatistics(1, entry)
    \/ \E p \in Files : AddFailedFile(1, p)
    \/ ResetState(1)

SpecReset == InitHistory /\ [][NextReset]_vars

\* C38: after any sequence of save_sync_statistics calls the persisted run history
\* holds at most 10 entries, which are the most recently saved runs in the order
\* they were saved, and last_sync_stats equals the last saved entry
C38_BoundedHistory ==
    /\ Len(sync_history) <= history_limit
    /\ Len(sync_history) = IF Len(saved) < history_limit THEN Len(saved) ELSE history_limit
    /\ \A k \in 1..Len(sync_history) :
          sync_history[k] = saved[Len(saved) - Len(sync_history) + k]
    /\ saved # << >> => last_sync_stats = saved[Len(saved)]

\* more than 10 runs were saved and the oldest one has left the history
C38_Witness ==
    /\ Len(saved) > history_limit
    /\ Len(sync_history) = history_limit
    /\ saved[1] # sync_history[1]

\* C39 (state part): right after reset_state the read accessors answer as on a fresh
\* store: no failed file, an empty mapping of successful files, no path uploaded,
\* an empty history
C39_FreshAnswers ==
    store_pc[1] = "reset_state" =>
        /\ get_failed_files_call = Returned({})
        /\ get_successful_files = Returned({})
        /\ \A p \in Files : is_file_uploaded_call(p) = Returned({})
        /\ get_sync_history = Returned({0})

\* C39 (step part): the call that follows reset_state succeeds
C39_NextCallSucceeds ==
    (store_pc[1] = "reset_state" /\ store_pc'[1] # "reset_state") =>
        store_pc'[1] = "returned"

\* C39: after reset_state every read accessor of the resume state store behaves as
\* on a fresh store (get_failed_files returns an empty list, get_successful_files an
\* empty mapping, is_file_uploaded is false for every path, get_sync_history returns
\* an empty list) and subsequent add_failed_file and save_sync_statistics calls
\* succeed
C39_ResetGivesFreshStore == [](C39_FreshAnswers) /\ [][C39_NextCallSucceeds]_vars

\* ------------------------------------------------------------- SyncState marks

\* C40: in the SyncState record, after any sequence of mark_uploaded and mark_failed
\* calls no path is in both the uploaded set and the failed set; the last of the two
\* operations applied to a path decides its membership, and after mark_failed(p)
\* is_uploaded(p, h) is false for every hash h until the next mark_uploaded(p, _)
C40_MarksExclusive ==
    /\ uploaded_files \cap failed_files = {}
    /\ \A p \in Estruturas :
          /\ mark[p] = "failed" =>
                /\ p \in failed_files
                /\ p \notin uploaded_files
                /\ \A h \in FileHash \cup {"None"} : ~is_uploaded(p, h)
          /\ mark[p] \notin {"none", "failed"} =>
                /\ p \in uploaded_files
                /\ p \notin failed_files

\* a path that was marked uploaded and then failed: its hash is still stored
C40_Witness ==
    \E p \in Estruturas :
        /\ mark[p] = "failed"
        /\ file_hashes[p] \in FileHash
        /\ p \in failed_files
====
